---------------------------- MODULE Spec2Model ----------------------------
(***************************************************************************)
(* Model of the PostgreSQL logical replication client:                     *)
(*   - the WAL message parser        (src/src/parser.rs)                   *)
(*   - the session state             (src/src/types.rs)                    *)
(*   - the replication loop          (src/src/server.rs)                   *)
(* Buffers are sequences of bytes (0..255); positions count consumed bytes.*)
(* The byte cursor (crate::buffer, not part of the sources at hand) is     *)
(* modelled from section 4.1 of the specification.                         *)
(***************************************************************************)
EXTENDS Integers, Sequences, FiniteSets, TLC

VARIABLES
    \* ReplicationState (types.rs)
    relations, received_lsn, flushed_lsn, last_feedback_time,
    in_streaming_txn, streaming_xid,
    \* replication loop and its environment (server.rs)
    pc, status, error, now, calls, report, wire, lsn_inputs,
    \* the relation cache and the stream fields as they were when the last
    \* 'w' frame of the dispatch run (PollWalAnyMessage) arrived
    before,
    \* the cancellation token of the process (main.rs)
    cancelled,
    \* parser harness: input buffer, session flag, result of the parse
    buf, flag, origin, result,
    \* the configuration handed to the engine (types.rs) and the process
    \* around the stream (main.rs)
    config, process

vars == <<relations, received_lsn, flushed_lsn, last_feedback_time,
          in_streaming_txn, streaming_xid,
          pc, status, error, now, calls, report, wire, lsn_inputs, before, cancelled,
          buf, flag, origin, result, config, process>>

stateVars == <<relations, received_lsn, flushed_lsn, last_feedback_time,
               in_streaming_txn, streaming_xid>>
loopVars == <<pc, status, error, now, calls, report, wire, lsn_inputs, cancelled>>
parseVars == <<buf, flag, origin, result>>
procVars == <<config, process>>

\* the part of the session state a 'w' frame can change by its message
Snapshot(rels, streaming, sxid) ==
    [relations |-> rels, in_streaming_txn |-> streaming, streaming_xid |-> sxid]

-----------------------------------------------------------------------------
(* Bounds of the model *)

MaxCols == 1
MaxLsn == 2
MaxClock == 2

-----------------------------------------------------------------------------
(* Tag bytes *)

TagB == 66
TagC == 67
TagR == 82
TagI == 73
TagU == 85
TagD == 68
TagT == 84
TagS == 83
TagE == 69
Tagc == 99
TagA == 65
MarkN == 78
MarkK == 75
MarkO == 79
DatumNull == 110
DatumUnchanged == 117
DatumText == 116
FrameK == 107
FrameW == 119
FrameR == 114
INVALID_XLOG_REC_PTR == 0
KeepaliveMinLen == 18
WalMinLen == 25
WalHeaderLen == 25
FeedbackLen == 34
PG_EPOCH_OFFSET_SECS == 946684800

\* Option<T>
None == <<>>
Some(x) == <<x>>

-----------------------------------------------------------------------------
(* Big-endian integers *)

RECURSIVE EncBE(_, _)
EncBE(v, n) == IF n = 0 THEN <<>> ELSE Append(EncBE(v \div 256, n - 1), v % 256)

RECURSIVE HornerBE(_, _, _, _)
HornerBE(b, pos, n, acc) ==
    IF n = 0 THEN acc ELSE HornerBE(b, pos + 1, n - 1, acc * 256 + b[pos + 1])

\* unsigned big-endian value of the n bytes after position pos
UnsignedBE(b, pos, n) == HornerBE(b, pos, n, 0)

\* two's complement big-endian value of the n bytes after position pos
SignedBE(b, pos, n) ==
    HornerBE(b, pos + 1, n - 1,
             IF b[pos + 1] >= 128 THEN b[pos + 1] - 256 ELSE b[pos + 1])

-----------------------------------------------------------------------------
(* Byte cursor: BufferReader *)

Rd(v, p) == [ok |-> TRUE, val |-> v, pos |-> p]
RdFail(p) == [ok |-> FALSE, val |-> 0, pos |-> p]

remaining(b, pos) == Len(b) - pos
has_bytes(b, pos, n) == remaining(b, pos) >= n

read_u8(b, pos) == IF has_bytes(b, pos, 1) THEN Rd(b[pos + 1], pos + 1) ELSE RdFail(pos)
peek_u8(b, pos) == IF has_bytes(b, pos, 1) THEN Rd(b[pos + 1], pos) ELSE RdFail(pos)
read_i16(b, pos) == IF has_bytes(b, pos, 2) THEN Rd(SignedBE(b, pos, 2), pos + 2) ELSE RdFail(pos)
read_u32(b, pos) == IF has_bytes(b, pos, 4) THEN Rd(UnsignedBE(b, pos, 4), pos + 4) ELSE RdFail(pos)
read_i32(b, pos) == IF has_bytes(b, pos, 4) THEN Rd(SignedBE(b, pos, 4), pos + 4) ELSE RdFail(pos)
read_u64(b, pos) == IF has_bytes(b, pos, 8) THEN Rd(UnsignedBE(b, pos, 8), pos + 8) ELSE RdFail(pos)
read_i64(b, pos) == IF has_bytes(b, pos, 8) THEN Rd(SignedBE(b, pos, 8), pos + 8) ELSE RdFail(pos)

\* the message type is the first byte of the buffer
skip_message_type(b) == read_u8(b, 0)

\* position of the first 0x00 at or after pos, 0 when there is none
RECURSIVE FindNul(_, _)
FindNul(b, pos) ==
    IF pos >= Len(b) THEN 0
    ELSE IF b[pos + 1] = 0 THEN pos + 1
    ELSE FindNul(b, pos + 1)

read_null_terminated_string(b, pos) ==
    LET z == FindNul(b, pos)
    IN  IF z = 0 THEN RdFail(pos) ELSE Rd(SubSeq(b, pos + 1, z - 1), z)

read_length_prefixed_string(b, pos) ==
    LET l == read_i32(b, pos)
    IN  IF ~l.ok THEN RdFail(pos)
        ELSE IF l.val < 0 \/ l.val > remaining(b, l.pos) THEN RdFail(pos)
        ELSE Rd(SubSeq(b, l.pos + 1, l.pos + l.val), l.pos + l.val)

set_position(b, pos) == IF pos >= 0 /\ pos <= Len(b) THEN Rd(0, pos) ELSE RdFail(pos)

-----------------------------------------------------------------------------
(* Parser results *)

ParseError == [kind |-> "ParseError"]
Panic == [kind |-> "Panic"]
Decoded(m) == [kind |-> "Ok", msg |-> m]


-----------------------------------------------------------------------------
(* MessageParser (parser.rs) *)

TupleFail(k) == [kind |-> k, tuple |-> <<>>, pos |-> 0]

\* the column loop of parse_tuple_data: columns i+1 .. count
RECURSIVE TupleColumns(_, _, _, _, _)
TupleColumns(b, pos, i, count, cols) ==
    IF i >= count THEN [kind |-> "Ok", tuple |-> cols, pos |-> pos]
    ELSE IF ~has_bytes(b, pos, 1) THEN TupleFail("ParseError")
    ELSE
      LET data_type == read_u8(b, pos)
      IN  IF data_type.val = DatumNull THEN
            TupleColumns(b, data_type.pos, i + 1, count,
                Append(cols, [data_type |-> DatumNull, length |-> 0, data |-> <<>>]))
          ELSE IF data_type.val = DatumUnchanged THEN
            TupleColumns(b, data_type.pos, i + 1, count,
                Append(cols, [data_type |-> DatumUnchanged, length |-> 0, data |-> <<>>]))
          ELSE IF data_type.val = DatumText THEN
            LET text_data == read_length_prefixed_string(b, data_type.pos)
            IN  IF ~text_data.ok THEN TupleFail("ParseError")
                ELSE TupleColumns(b, text_data.pos, i + 1, count,
                        Append(cols, [data_type |-> DatumText,
                                      length |-> Len(text_data.val),
                                      data |-> text_data.val]))
          ELSE TupleFail("ParseError")

\* Vec::with_capacity(column_count as usize) overflows the capacity for a
\* negative column_count and panics
parse_tuple_data(b, pos) ==
    IF ~has_bytes(b, pos, 2) THEN TupleFail("ParseError")
    ELSE
      LET start_position == pos
          column_count == read_i16(b, pos)
      IN  IF column_count.val < 0 THEN TupleFail("Panic")
          ELSE
            LET r == TupleColumns(b, column_count.pos, 0, column_count.val, <<>>)
            IN  IF r.kind # "Ok" THEN r
                ELSE [kind |-> "Ok",
                      tuple |-> [column_count |-> column_count.val,
                                 columns |-> r.tuple,
                                 processed_length |-> r.pos - start_position],
                      pos |-> r.pos]

parse_begin_message(b, pos) ==
    IF ~has_bytes(b, pos, 20) THEN ParseError
    ELSE
      LET final_lsn == read_u64(b, pos)
          timestamp == read_i64(b, final_lsn.pos)
          xid == read_u32(b, timestamp.pos)
      IN  Decoded([type |-> "Begin", final_lsn |-> final_lsn.val,
                   timestamp |-> timestamp.val, xid |-> xid.val])

parse_commit_message(b, pos) ==
    IF ~has_bytes(b, pos, 25) THEN ParseError
    ELSE
      LET flags == read_u8(b, pos)
          commit_lsn == read_u64(b, flags.pos)
          end_lsn == read_u64(b, commit_lsn.pos)
          timestamp == read_i64(b, end_lsn.pos)
      IN  Decoded([type |-> "Commit", flags |-> flags.val,
                   commit_lsn |-> commit_lsn.val, end_lsn |-> end_lsn.val,
                   timestamp |-> timestamp.val])

\* the column loop of parse_relation_message: columns i+1 .. count
RECURSIVE RelationColumns(_, _, _, _, _)
RelationColumns(b, pos, i, count, cols) ==
    IF i >= count THEN [kind |-> "Ok", columns |-> cols, pos |-> pos]
    ELSE IF ~has_bytes(b, pos, 9) THEN [kind |-> "ParseError", columns |-> <<>>, pos |-> 0]
    ELSE
      LET key_flag == read_u8(b, pos)
          column_name == read_null_terminated_string(b, key_flag.pos)
          column_type == read_u32(b, column_name.pos)
          atttypmod == read_i32(b, column_type.pos)
      IN  IF ~column_name.ok \/ ~column_type.ok \/ ~atttypmod.ok
          THEN [kind |-> "ParseError", columns |-> <<>>, pos |-> 0]
          ELSE RelationColumns(b, atttypmod.pos, i + 1, count,
                  Append(cols, [key_flag |-> IF key_flag.val >= 128
                                             THEN key_flag.val - 256 ELSE key_flag.val,
                                column_name |-> column_name.val,
                                column_type |-> column_type.val,
                                atttypmod |-> atttypmod.val]))

parse_relation_message(b, pos, streaming) ==
    LET min_bytes == IF streaming THEN 11 ELSE 7
    IN  IF ~has_bytes(b, pos, min_bytes) THEN ParseError
        ELSE
          LET xid == IF streaming THEN read_u32(b, pos) ELSE Rd(0, pos)
              oid == read_u32(b, xid.pos)
              namespace == read_null_terminated_string(b, oid.pos)
              relation_name == read_null_terminated_string(b, namespace.pos)
              replica_identity == read_u8(b, relation_name.pos)
              column_count == read_i16(b, replica_identity.pos)
          IN  IF ~namespace.ok THEN ParseError
              ELSE IF ~relation_name.ok THEN ParseError
              ELSE IF ~replica_identity.ok THEN ParseError
              ELSE IF ~column_count.ok THEN ParseError
              ELSE IF column_count.val < 0 THEN Panic
              ELSE
                LET r == RelationColumns(b, column_count.pos, 0, column_count.val, <<>>)
                IN  IF r.kind # "Ok" THEN ParseError
                    ELSE Decoded([type |-> "Relation",
                                  relation |-> [oid |-> oid.val,
                                                namespace |-> namespace.val,
                                                relation_name |-> relation_name.val,
                                                replica_identity |-> replica_identity.val,
                                                column_count |-> column_count.val,
                                                columns |-> r.columns]])


TupleResult(k) == IF k = "Panic" THEN Panic ELSE ParseError

\* faulty variant: the Update test written like the Delete test
update_streaming_as_delete(next_byte) == ~(next_byte \in {MarkK, MarkO})

\* the test each DML parser makes on the byte after the first u32 to tell a
\* message with an XID prefix from one without
insert_streaming(next_byte) == next_byte # MarkN
update_streaming(next_byte) == ~(next_byte \in {MarkK, MarkO, MarkN})
delete_streaming(next_byte) == ~(next_byte \in {MarkK, MarkO})

parse_insert_message(b, pos) ==
    IF ~has_bytes(b, pos, 5) THEN ParseError
    ELSE
      LET transaction_id_or_oid == read_u32(b, pos)
          next_byte == peek_u8(b, transaction_id_or_oid.pos)
          streaming == insert_streaming(next_byte.val)
          relation_id == IF streaming THEN read_u32(b, transaction_id_or_oid.pos)
                         ELSE transaction_id_or_oid
          marker == read_u8(b, relation_id.pos)
          t == parse_tuple_data(b, marker.pos)
      IN  IF ~relation_id.ok THEN ParseError
          ELSE IF ~marker.ok THEN ParseError
          ELSE IF marker.val # MarkN THEN ParseError
          ELSE IF t.kind # "Ok" THEN TupleResult(t.kind)
          ELSE Decoded([type |-> "Insert",
                        relation_id |-> relation_id.val,
                        tuple_data |-> t.tuple,
                        is_stream |-> streaming,
                        xid |-> IF streaming THEN Some(transaction_id_or_oid.val) ELSE None])

parse_update_message(b, pos) ==
    IF ~has_bytes(b, pos, 5) THEN ParseError
    ELSE
      LET transaction_id_or_oid == read_u32(b, pos)
          next_byte == peek_u8(b, transaction_id_or_oid.pos)
          streaming == update_streaming(next_byte.val)
          relation_id == IF streaming THEN read_u32(b, transaction_id_or_oid.pos)
                         ELSE transaction_id_or_oid
          marker == read_u8(b, relation_id.pos)
          old == parse_tuple_data(b, marker.pos)
          new_marker == read_u8(b, old.pos)
          hasOld == marker.val \in {MarkK, MarkO}
          new == parse_tuple_data(b, IF hasOld THEN new_marker.pos ELSE marker.pos)
      IN  IF ~relation_id.ok THEN ParseError
          ELSE IF ~marker.ok THEN ParseError
          ELSE IF ~(marker.val \in {MarkK, MarkO, MarkN}) THEN ParseError
          ELSE IF hasOld /\ old.kind # "Ok" THEN TupleResult(old.kind)
          ELSE IF hasOld /\ ~new_marker.ok THEN ParseError
          ELSE IF hasOld /\ new_marker.val # MarkN THEN ParseError
          ELSE IF new.kind # "Ok" THEN TupleResult(new.kind)
          ELSE Decoded([type |-> "Update",
                        relation_id |-> relation_id.val,
                        key_type |-> IF hasOld THEN Some(marker.val) ELSE None,
                        old_tuple_data |-> IF hasOld THEN Some(old.tuple) ELSE None,
                        new_tuple_data |-> new.tuple,
                        is_stream |-> streaming,
                        xid |-> IF streaming THEN Some(transaction_id_or_oid.val) ELSE None])

parse_delete_message(b, pos) ==
    IF ~has_bytes(b, pos, 5) THEN ParseError
    ELSE
      LET transaction_id_or_oid == read_u32(b, pos)
          next_byte == peek_u8(b, transaction_id_or_oid.pos)
          streaming == delete_streaming(next_byte.val)
          relation_id == IF streaming THEN read_u32(b, transaction_id_or_oid.pos)
                         ELSE transaction_id_or_oid
          key_type == read_u8(b, relation_id.pos)
          t == parse_tuple_data(b, key_type.pos)
      IN  IF ~relation_id.ok THEN ParseError
          ELSE IF ~key_type.ok THEN ParseError
          ELSE IF t.kind # "Ok" THEN TupleResult(t.kind)
          ELSE Decoded([type |-> "Delete",
                        relation_id |-> relation_id.val,
                        key_type |-> key_type.val,
                        tuple_data |-> t.tuple,
                        is_stream |-> streaming,
                        xid |-> IF streaming THEN Some(transaction_id_or_oid.val) ELSE None])

\* the relation loop of parse_truncate_message: relations i+1 .. count
RECURSIVE TruncateRelations(_, _, _, _, _)
TruncateRelations(b, pos, i, count, ids) ==
    IF i >= count THEN [kind |-> "Ok", ids |-> ids]
    ELSE IF ~has_bytes(b, pos, 4) THEN [kind |-> "ParseError", ids |-> <<>>]
    ELSE LET relation_id == read_u32(b, pos)
         IN  TruncateRelations(b, relation_id.pos, i + 1, count, Append(ids, relation_id.val))

\* faulty variant: the flags byte left out of the expected length
ExpectedForStreaming_without_flags(remaining_bytes, second_u32) ==
    /\ remaining_bytes % 4 = 0
    /\ remaining_bytes \div 4 = second_u32

\* remaining_bytes == 1 + second_u32 * 4, computed in usize (64 bits): written
\* with a division so that no intermediate value leaves 32 bits
ExpectedForStreaming(remaining_bytes, second_u32) ==
    /\ remaining_bytes >= 1
    /\ (remaining_bytes - 1) % 4 = 0
    /\ (remaining_bytes - 1) \div 4 = second_u32

parse_truncate_message(b, pos) ==
    IF ~has_bytes(b, pos, 9) THEN ParseError
    ELSE
      LET first_u32 == read_u32(b, pos)
          second_u32 == read_u32(b, first_u32.pos)
          remaining_bytes == remaining(b, second_u32.pos)
          streaming == ExpectedForStreaming(remaining_bytes, second_u32.val)
          rewound == set_position(b, second_u32.pos - 4)
          flags == read_u8(b, IF streaming THEN second_u32.pos ELSE rewound.pos)
          num_relations == IF streaming THEN second_u32.val ELSE first_u32.val
          r == TruncateRelations(b, flags.pos, 0, num_relations, <<>>)
      IN  IF ~streaming /\ ~rewound.ok THEN ParseError
          ELSE IF ~flags.ok THEN ParseError
          ELSE IF r.kind # "Ok" THEN ParseError
          ELSE Decoded([type |-> "Truncate",
                        relation_ids |-> r.ids,
                        flags |-> IF flags.val >= 128 THEN flags.val - 256 ELSE flags.val,
                        is_stream |-> streaming,
                        xid |-> IF streaming THEN Some(first_u32.val) ELSE None])

parse_stream_start_message(b, pos) ==
    IF ~has_bytes(b, pos, 4) THEN ParseError
    ELSE
      LET xid == read_u32(b, pos)
          first_segment == IF has_bytes(b, xid.pos, 1)
                           THEN read_u8(b, xid.pos).val = 1
                           ELSE FALSE
      IN  Decoded([type |-> "StreamStart", xid |-> xid.val,
                   first_segment |-> first_segment])

parse_stream_stop_message(b, pos) == Decoded([type |-> "StreamStop"])

parse_stream_commit_message(b, pos) ==
    IF ~has_bytes(b, pos, 29) THEN ParseError
    ELSE
      LET xid == read_u32(b, pos)
          flags == read_u8(b, xid.pos)
          commit_lsn == read_u64(b, flags.pos)
          end_lsn == read_u64(b, commit_lsn.pos)
          timestamp == read_i64(b, end_lsn.pos)
      IN  Decoded([type |-> "StreamCommit", xid |-> xid.val, flags |-> flags.val,
                   commit_lsn |-> commit_lsn.val, end_lsn |-> end_lsn.val,
                   timestamp |-> timestamp.val])

\* faulty variant: the subtransaction XID taken as optional, the way
\* first_segment is in parse_stream_start_message
parse_stream_abort_message_lenient(b, pos) ==
    IF ~has_bytes(b, pos, 4) THEN ParseError
    ELSE
      LET xid == read_u32(b, pos)
          subtransaction_xid == IF has_bytes(b, xid.pos, 4)
                                THEN read_u32(b, xid.pos).val
                                ELSE 0
      IN  Decoded([type |-> "StreamAbort", xid |-> xid.val,
                   subtransaction_xid |-> subtransaction_xid])

parse_stream_abort_message(b, pos) ==
    IF ~has_bytes(b, pos, 8) THEN ParseError
    ELSE
      LET xid == read_u32(b, pos)
          subtransaction_xid == read_u32(b, xid.pos)
      IN  Decoded([type |-> "StreamAbort", xid |-> xid.val,
                   subtransaction_xid |-> subtransaction_xid.val])

\* faulty variant: Delete skips an XID when the session flag is set, the way
\* parse_relation_message does
parse_wal_message_flag_in_delete(b, streaming) ==
    LET message_type == skip_message_type(b)
        pos == message_type.pos
        t == message_type.val
    IN  IF ~message_type.ok THEN ParseError
        ELSE IF t = TagB THEN parse_begin_message(b, pos)
        ELSE IF t = TagC THEN parse_commit_message(b, pos)
        ELSE IF t = TagR THEN parse_relation_message(b, pos, streaming)
        ELSE IF t = TagI THEN parse_insert_message(b, pos)
        ELSE IF t = TagU THEN parse_update_message(b, pos)
        ELSE IF t = TagD THEN
            IF streaming /\ has_bytes(b, pos, 4)
            THEN parse_delete_message(b, pos + 4)
            ELSE parse_delete_message(b, pos)
        ELSE IF t = TagT THEN parse_truncate_message(b, pos)
        ELSE IF t = TagS THEN parse_stream_start_message(b, pos)
        ELSE IF t = TagE THEN parse_stream_stop_message(b, pos)
        ELSE IF t = Tagc THEN parse_stream_commit_message(b, pos)
        ELSE IF t = TagA THEN parse_stream_abort_message(b, pos)
        ELSE ParseError

parse_wal_message(b, streaming) ==
    LET message_type == skip_message_type(b)
        pos == message_type.pos
        t == message_type.val
    IN  IF ~message_type.ok THEN ParseError
        ELSE IF t = TagB THEN parse_begin_message(b, pos)
        ELSE IF t = TagC THEN parse_commit_message(b, pos)
        ELSE IF t = TagR THEN parse_relation_message(b, pos, streaming)
        ELSE IF t = TagI THEN parse_insert_message(b, pos)
        ELSE IF t = TagU THEN parse_update_message(b, pos)
        ELSE IF t = TagD THEN parse_delete_message(b, pos)
        ELSE IF t = TagT THEN parse_truncate_message(b, pos)
        ELSE IF t = TagS THEN parse_stream_start_message(b, pos)
        ELSE IF t = TagE THEN parse_stream_stop_message(b, pos)
        ELSE IF t = Tagc THEN parse_stream_commit_message(b, pos)
        ELSE IF t = TagA THEN parse_stream_abort_message(b, pos)
        ELSE ParseError


-----------------------------------------------------------------------------
(* Encoders: the wire form of a message, as the server writes it.  A message *)
(* is given in its decoded form; rxid is the XID prefix of a Relation        *)
(* message (None outside a streamed transaction).                            *)

RECURSIVE Concat(_)
Concat(ss) == IF ss = <<>> THEN <<>> ELSE Head(ss) \o Concat(Tail(ss))

EncXid(x) == IF x = None THEN <<>> ELSE EncBE(x[1], 4)

EncDatum(c) ==
    IF c.data_type = DatumText THEN <<DatumText>> \o EncBE(c.length, 4) \o c.data
    ELSE <<c.data_type>>

EncTuple(t) ==
    EncBE(t.column_count, 2) \o Concat([i \in 1..Len(t.columns) |-> EncDatum(t.columns[i])])

EncColumn(c) ==
    <<c.key_flag % 256>> \o c.column_name \o <<0>> \o EncBE(c.column_type, 4)
        \o EncBE(c.atttypmod, 4)

Encode(m, rxid) ==
    CASE m.type = "Begin" ->
           <<TagB>> \o EncBE(m.final_lsn, 8) \o EncBE(m.timestamp, 8) \o EncBE(m.xid, 4)
      [] m.type = "Commit" ->
           <<TagC, m.flags>> \o EncBE(m.commit_lsn, 8) \o EncBE(m.end_lsn, 8)
               \o EncBE(m.timestamp, 8)
      [] m.type = "Relation" ->
           <<TagR>> \o EncXid(rxid) \o EncBE(m.relation.oid, 4)
               \o m.relation.namespace \o <<0>> \o m.relation.relation_name \o <<0>>
               \o <<m.relation.replica_identity>> \o EncBE(m.relation.column_count, 2)
               \o Concat([i \in 1..Len(m.relation.columns) |->
                             EncColumn(m.relation.columns[i])])
      [] m.type = "Insert" ->
           <<TagI>> \o EncXid(m.xid) \o EncBE(m.relation_id, 4) \o <<MarkN>>
               \o EncTuple(m.tuple_data)
      [] m.type = "Update" ->
           <<TagU>> \o EncXid(m.xid) \o EncBE(m.relation_id, 4)
               \o (IF m.key_type = None THEN <<>>
                   ELSE <<m.key_type[1]>> \o EncTuple(m.old_tuple_data[1]))
               \o <<MarkN>> \o EncTuple(m.new_tuple_data)
      [] m.type = "Delete" ->
           <<TagD>> \o EncXid(m.xid) \o EncBE(m.relation_id, 4) \o <<m.key_type>>
               \o EncTuple(m.tuple_data)
      [] m.type = "Truncate" ->
           <<TagT>> \o EncXid(m.xid) \o EncBE(Len(m.relation_ids), 4) \o <<m.flags % 256>>
               \o Concat([i \in 1..Len(m.relation_ids) |-> EncBE(m.relation_ids[i], 4)])
      [] m.type = "StreamStart" ->
           <<TagS>> \o EncBE(m.xid, 4) \o <<IF m.first_segment THEN 1 ELSE 0>>
      [] m.type = "StreamStop" -> <<TagE>>
      [] m.type = "StreamCommit" ->
           <<Tagc>> \o EncBE(m.xid, 4) \o <<m.flags>> \o EncBE(m.commit_lsn, 8)
               \o EncBE(m.end_lsn, 8) \o EncBE(m.timestamp, 8)
      [] m.type = "StreamAbort" ->
           <<TagA>> \o EncBE(m.xid, 4) \o EncBE(m.subtransaction_xid, 4)

-----------------------------------------------------------------------------
(* The messages the checks draw from *)

MaxRels == 2

\* relation OIDs by their first (most significant) byte and the rest: a small
\* one, and two whose first byte is the byte of a tuple marker
Oid(first_byte, rest) == first_byte * 16777216 + rest
OidPlain == Oid(0, 16)
OidK == Oid(MarkK, 0)
OidN == Oid(MarkN, 0)
OIDs == {OidPlain, OidK, OidN}
XIDs == {3, 7}
StreamTags == {None} \cup {Some(x) : x \in XIDs}

Datums == { [data_type |-> DatumNull, length |-> 0, data |-> <<>>],
            [data_type |-> DatumUnchanged, length |-> 0, data |-> <<>>],
            [data_type |-> DatumText, length |-> 1, data |-> <<97>>] }

RECURSIVE SumLen(_)
SumLen(ss) == IF ss = <<>> THEN 0 ELSE Len(Head(ss)) + SumLen(Tail(ss))

MkTuple(cols) ==
    [column_count |-> Len(cols), columns |-> cols,
     processed_length |-> 2 + SumLen([i \in 1..Len(cols) |-> EncDatum(cols[i])])]

Tuples == {MkTuple(c) : c \in UNION {[1..n -> Datums] : n \in 0..MaxCols}}

ColumnInfos == { [key_flag |-> 1, column_name |-> <<97>>, column_type |-> 23,
                  atttypmod |-> -1] }

RelationInfos ==
    { [oid |-> o, namespace |-> <<112>>, relation_name |-> <<116>>,
       replica_identity |-> 100, column_count |-> Len(cs), columns |-> cs] :
         o \in OIDs, cs \in UNION {[1..n -> ColumnInfos] : n \in 0..MaxCols} }

BeginMsgs == {[type |-> "Begin", final_lsn |-> 256, timestamp |-> 0, xid |-> x] : x \in XIDs}
CommitMsgs == {[type |-> "Commit", flags |-> 0, commit_lsn |-> 256, end_lsn |-> 300,
                timestamp |-> 0]}
RelationMsgs == {[type |-> "Relation", relation |-> r] : r \in RelationInfos}
InsertMsgs ==
    {[type |-> "Insert", relation_id |-> o, tuple_data |-> t, is_stream |-> x # None,
      xid |-> x] : o \in OIDs, t \in Tuples, x \in StreamTags}
UpdateMsgs ==
    {[type |-> "Update", relation_id |-> o, key_type |-> None, old_tuple_data |-> None,
      new_tuple_data |-> t, is_stream |-> x # None, xid |-> x] :
        o \in OIDs, t \in Tuples, x \in StreamTags}
    \cup
    {[type |-> "Update", relation_id |-> o, key_type |-> Some(k),
      old_tuple_data |-> Some(ot), new_tuple_data |-> t, is_stream |-> x # None,
      xid |-> x] :
        o \in OIDs, k \in {MarkK, MarkO}, ot \in Tuples, t \in Tuples, x \in StreamTags}
DeleteMsgs ==
    {[type |-> "Delete", relation_id |-> o, key_type |-> k, tuple_data |-> t,
      is_stream |-> x # None, xid |-> x] :
        o \in OIDs, k \in {MarkK, MarkO}, t \in Tuples, x \in StreamTags}
TruncateMsgs ==
    {[type |-> "Truncate", relation_ids |-> rs, flags |-> f, is_stream |-> x # None,
      xid |-> x] :
        rs \in UNION {[1..n -> OIDs] : n \in 1..MaxRels}, f \in {0, 1}, x \in StreamTags}
StreamStartMsgs ==
    {[type |-> "StreamStart", xid |-> x, first_segment |-> f] : x \in XIDs, f \in BOOLEAN}
StreamStopMsgs == {[type |-> "StreamStop"]}
StreamCommitMsgs ==
    {[type |-> "StreamCommit", xid |-> x, flags |-> 0, commit_lsn |-> 256,
      end_lsn |-> 300, timestamp |-> 0] : x \in XIDs}
StreamAbortMsgs ==
    {[type |-> "StreamAbort", xid |-> x, subtransaction_xid |-> x] : x \in XIDs}

DmlTypes == {"Insert", "Update", "Delete"}

WireMsgs ==
    BeginMsgs \cup CommitMsgs \cup RelationMsgs \cup InsertMsgs \cup UpdateMsgs
        \cup DeleteMsgs \cup TruncateMsgs \cup StreamStartMsgs \cup StreamStopMsgs
        \cup StreamCommitMsgs \cup StreamAbortMsgs

\* a message together with the XID prefix its encoding carries
Origins ==
    {[msg |-> m, rxid |-> x] : m \in WireMsgs \ RelationMsgs, x \in {None}}
    \cup {[msg |-> m, rxid |-> x] : m \in RelationMsgs, x \in StreamTags}

Wire(o) == Encode(o.msg, o.rxid)


-----------------------------------------------------------------------------
(* ReplicationState (types.rs) *)

Max(a, b) == IF a >= b THEN a ELSE b

New ==
    [relations |-> <<>>, received_lsn |-> 0, flushed_lsn |-> 0,
     in_streaming_txn |-> FALSE, streaming_xid |-> None]

\* faulty variant: a stream that is open keeps its XID
start_streaming_keeps_open(xid) ==
    IF in_streaming_txn
    THEN [in_streaming_txn |-> TRUE, streaming_xid |-> streaming_xid]
    ELSE [in_streaming_txn |-> TRUE, streaming_xid |-> Some(xid)]

start_streaming(xid) == [in_streaming_txn |-> TRUE, streaming_xid |-> Some(xid)]

\* faulty variant: the flag is cleared and the XID is left as it is
stop_streaming_keeps_xid ==
    [in_streaming_txn |-> FALSE, streaming_xid |-> streaming_xid]

stop_streaming == [in_streaming_txn |-> FALSE, streaming_xid |-> None]

\* faulty variant: the cache is rebuilt with the new relation alone
add_relation_replaces(rels, relation) == [o \in {relation.oid} |-> relation]

\* faulty variant: an OID that is cached keeps its first descriptor
add_relation_keeps_first(rels, relation) ==
    IF relation.oid \in DOMAIN rels THEN rels
    ELSE [o \in DOMAIN rels \cup {relation.oid} |->
             IF o = relation.oid THEN relation ELSE rels[o]]

add_relation(rels, relation) ==
    [o \in DOMAIN rels \cup {relation.oid} |->
        IF o = relation.oid THEN relation ELSE rels[o]]

get_relation(rels, oid) == IF oid \in DOMAIN rels THEN Some(rels[oid]) ELSE None

\* faulty variant: the new LSN is stored without taking the maximum
update_lsn_overwrites(received, lsn) == IF lsn > 0 THEN lsn ELSE received

\* faulty variant: the guard compares against 1 instead of 0
update_lsn_guard_off_by_one(received, lsn) ==
    IF lsn > 1 THEN Max(received, lsn) ELSE received

update_lsn(received, lsn) == IF lsn > 0 THEN Max(received, lsn) ELSE received

feedback_interval_secs == 1

-----------------------------------------------------------------------------
(* ReplicationServer (server.rs) *)

\* what the engine logs for a dispatched message
Report(level, event, relation_id, is_stream, xid) ==
    [level |-> level, event |-> event, relation_id |-> relation_id,
     is_stream |-> is_stream, xid |-> xid]
NoReport == Report("none", "none", 0, FALSE, None)

\* faulty variant: an unknown relation makes the dispatch return an error
dispatch_dml_fatal(rels, m) ==
    [ok |-> get_relation(rels, m.relation_id) # None,
     report |-> Report(IF get_relation(rels, m.relation_id) # None THEN "info" ELSE "error",
                       m.type, m.relation_id, m.is_stream, m.xid)]

\* the Insert, Update and Delete arms of process_replication_message: the
\* relation is looked up; an unknown one is logged as an error and the arm
\* still ends in Ok
dispatch_dml(rels, m) ==
    [ok |-> TRUE,
     report |-> Report(IF get_relation(rels, m.relation_id) # None THEN "info" ELSE "error",
                       m.type, m.relation_id, m.is_stream, m.xid)]

\* the words the Truncate arm logs for the flags of the message
flag_info(flags) ==
    CASE flags = 1 -> "CASCADE "
      [] flags = 2 -> "RESTART IDENTITY "
      [] OTHER -> ""

\* faulty variant: a Begin or Commit closes the open stream
begin_commit_closes_stream(m, same) ==
    [relations |-> same.relations] @@ stop_streaming
        @@ [ok |-> TRUE, report |-> Report("info", m.type, 0, FALSE, None)]

\* the Begin and Commit arms of process_replication_message: one line is
\* logged
begin_commit(m, same) ==
    same @@ [ok |-> TRUE, report |-> Report("info", m.type, 0, FALSE, None)]

\* process_replication_message: the session state after the dispatch of
\* message m, what was logged, and whether it returns Ok
process_replication_message(m, rels, streaming, sxid) ==
    LET same == [relations |-> rels, in_streaming_txn |-> streaming,
                 streaming_xid |-> sxid]
    IN  CASE m.type \in {"Begin", "Commit"} ->
               begin_commit(m, same)
          [] m.type = "Relation" ->
               [same EXCEPT !.relations = add_relation(rels, m.relation)]
                   @@ [ok |-> TRUE,
                       report |-> Report("none", "Relation", m.relation.oid, FALSE, None)]
          [] m.type \in DmlTypes ->
               same @@ dispatch_dml(rels, m)
          [] m.type = "Truncate" ->
               same @@ [ok |-> TRUE,
                        report |-> Report("info", "Truncate", 0, m.is_stream, m.xid)
                                       @@ [flag_info |-> flag_info(m.flags)]]
          [] m.type = "StreamStart" ->
               [relations |-> rels] @@ start_streaming(m.xid)
                   @@ [ok |-> TRUE,
                       report |-> Report("info", "StreamStart", 0, FALSE, Some(m.xid))]
          [] m.type \in {"StreamStop", "StreamCommit", "StreamAbort"} ->
               [relations |-> rels] @@ stop_streaming
                   @@ [ok |-> TRUE, report |-> Report("info", m.type, 0, FALSE, None)]
          [] OTHER ->
               same @@ [ok |-> TRUE, report |-> Report("info", m.type, 0, FALSE, None)]

\* faulty variant: the flush position reported as the byte after the last
\* one received
FeedbackFrame_flush_next(lsn, timestamp) ==
    <<FrameR>> \o EncBE(lsn, 8) \o EncBE(lsn + 1, 8) \o EncBE(INVALID_XLOG_REC_PTR, 8)
        \o EncBE(timestamp, 8) \o <<0>>

\* the standby status reply written by send_feedback
FeedbackFrame(lsn, timestamp) ==
    <<FrameR>> \o EncBE(lsn, 8) \o EncBE(lsn, 8) \o EncBE(INVALID_XLOG_REC_PTR, 8)
        \o EncBE(timestamp, 8) \o <<0>>

\* outcomes of the transport for one send: put_copy_data and flush
TxOutcomes == {"ok", "put_fails", "flush_fails"}

PutCall(frame) == [call |-> "put_copy_data", data |-> frame]
FlushCall == [call |-> "flush", data |-> <<>>]
GetCall == [call |-> "get_copy_data", data |-> <<>>]

\* SystemTime::now(): seconds and microseconds since the Unix epoch.  The
\* clock of the model counts seconds from 2000-01-01 00:00:00 UTC.
SystemTimeNow(clock) == [secs |-> PG_EPOCH_OFFSET_SECS + clock, micros |-> 0]

\* system_time_to_postgres_timestamp: microseconds since 2000-01-01.  The
\* code computes secs * 1000000 + micros - PG_EPOCH_OFFSET_SECS * 1000000 in
\* i64; the offset is subtracted first here so that no intermediate value
\* leaves 32 bits.
system_time_to_postgres_timestamp(time) ==
    (time.secs - PG_EPOCH_OFFSET_SECS) * 1000000 + time.micros

\* faulty variant: the frame is handed to the transport and never flushed
send_feedback_no_flush(lsn, clock, tx) ==
    IF lsn = 0 THEN [ok |-> TRUE, calls |-> <<>>]
    ELSE LET timestamp == system_time_to_postgres_timestamp(SystemTimeNow(clock))
         IN  [ok |-> tx = "ok", calls |-> <<PutCall(FeedbackFrame(lsn, timestamp))>>]

\* faulty variant: a frame is sent whatever the received LSN
send_feedback_always(lsn, clock, tx) ==
    LET timestamp == system_time_to_postgres_timestamp(SystemTimeNow(clock))
    IN  IF tx = "put_fails"
        THEN [ok |-> FALSE, calls |-> <<PutCall(FeedbackFrame(lsn, timestamp))>>]
        ELSE [ok |-> tx # "flush_fails",
              calls |-> <<PutCall(FeedbackFrame(lsn, timestamp)), FlushCall>>]

\* send_feedback: the transport calls it makes and whether it returns Ok
send_feedback(lsn, clock, tx) ==
    IF lsn = 0 THEN [ok |-> TRUE, calls |-> <<>>]
    ELSE LET timestamp == system_time_to_postgres_timestamp(SystemTimeNow(clock))
         IN  IF tx = "put_fails"
             THEN [ok |-> FALSE, calls |-> <<PutCall(FeedbackFrame(lsn, timestamp))>>]
             ELSE [ok |-> tx # "flush_fails",
                   calls |-> <<PutCall(FeedbackFrame(lsn, timestamp)), FlushCall>>]

\* faulty variant: a keepalive is answered only when its reply byte asks
keepalive_feedback_on_request(data, lsn, clock, tx) ==
    IF data[KeepaliveMinLen] = 1 THEN send_feedback(lsn, clock, tx)
    ELSE [ok |-> TRUE, calls |-> <<>>]

\* faulty variant: the reply echoes the wal_end of the keepalive
keepalive_feedback_echoes_wal_end(data, lsn, clock, tx) ==
    send_feedback(read_u64(data, 1).val, clock, tx)

\* the reply of process_keepalive_message: send_feedback, whatever the rest
\* of the frame says
keepalive_feedback(data, lsn, clock, tx) == send_feedback(lsn, clock, tx)

-----------------------------------------------------------------------------
(* Frames the server sends in CopyBoth mode *)

\* the messages the engine is fed: one tuple shape, all three kinds of OID
EngineTuple == MkTuple(<<[data_type |-> DatumText, length |-> 1, data |-> <<97>>]>>)
EngineOIDs == {OidPlain, OidN}
EngineMsgs ==
    {m \in BeginMsgs : m.xid = 3}
    \cup CommitMsgs
    \cup {m \in RelationMsgs : m.relation.oid \in EngineOIDs}
    \cup {m \in InsertMsgs : m.relation_id \in EngineOIDs /\ m.tuple_data = EngineTuple}
    \cup {m \in UpdateMsgs : /\ m.relation_id \in EngineOIDs
                             /\ m.key_type = None
                             /\ m.new_tuple_data = EngineTuple}
    \cup {m \in DeleteMsgs : /\ m.relation_id \in EngineOIDs
                             /\ m.key_type = MarkK
                             /\ m.tuple_data = EngineTuple}
    \cup {m \in TruncateMsgs : m.relation_ids = <<OidN>> /\ m.flags = 1}
    \cup {m \in StreamStartMsgs : m.first_segment}
    \cup StreamStopMsgs \cup StreamCommitMsgs \cup StreamAbortMsgs
EngineOrigins == {o \in Origins : o.msg \in EngineMsgs}

\* the few messages fed to the loop when LSNs, time and the transport vary
LoopOrigins ==
    {o \in EngineOrigins :
        /\ o.rxid = None
        /\ \/ o.msg.type \in {"Begin", "StreamStop"}
           \/ o.msg.type = "StreamStart" /\ o.msg.xid = 3
           \/ /\ o.msg.type = "Relation"
              /\ o.msg.relation.oid = OidPlain /\ o.msg.relation.column_count = 1
           \/ o.msg.type = "Insert" /\ o.msg.relation_id = OidPlain /\ o.msg.xid = None}

\* payloads that are no message: an unknown tag, a truncated Begin
BadPayloads == { <<88>>, <<TagB, 0, 0>> }

KeepaliveFrame(wal_end, reply) ==
    <<FrameK>> \o EncBE(wal_end, 8) \o EncBE(0, 8) \o <<reply>>
WalFrame(data_start, payload) ==
    <<FrameW>> \o EncBE(data_start, 8) \o EncBE(data_start, 8) \o EncBE(0, 8) \o payload

\* what the server put on the wire, for the record: the message and the
\* stream prefix of its encoding
Sent(o, l) ==
    [type |-> o.msg.type, lsn |-> l, payload |-> Wire(o),
     xid |-> IF o.msg.type = "Relation" THEN o.rxid
             ELSE IF o.msg.type \in DmlTypes \cup {"Truncate"} THEN o.msg.xid
             ELSE None,
     relation_id |-> IF o.msg.type \in DmlTypes THEN o.msg.relation_id ELSE 0]
SentOther(t, l) == [type |-> t, lsn |-> l, xid |-> None, relation_id |-> 0]
NotSent == SentOther("none", 0)
\* a frame the engine does not process, kept whole
SentFrame(t, l, data) == SentOther(t, l) @@ [data |-> data]

-----------------------------------------------------------------------------
(* ReplicationConfig (types.rs).  Strings are sequences of characters, a     *)
(* character is its code point.                                              *)

SlotNameMaxLen == 63
Underscore == 95

AsciiAlphanumeric == (48..57) \cup (65..90) \cup (97..122)
\* char::is_whitespace, for the code points below 256
Whitespace == (9..13) \cup {32, 133, 160}

\* str::trim().is_empty()
Blank(str) == \A i \in DOMAIN str : str[i] \in Whitespace

\* str::len(): the length in bytes of the UTF-8 encoding
RECURSIVE ByteLen(_)
ByteLen(str) ==
    IF str = <<>> THEN 0
    ELSE (IF Head(str) < 128 THEN 1 ELSE IF Head(str) < 2048 THEN 2 ELSE 3)
             + ByteLen(Tail(str))

\* faulty variant: the length limit is tested with >=
ReplicationConfig_new_limit_off_by_one(connection_string, publication_name, slot_name) ==
    IF Blank(connection_string) \/ Blank(publication_name) \/ Blank(slot_name)
    THEN "Configuration"
    ELSE IF ~(\A i \in DOMAIN slot_name :
                 slot_name[i] \in AsciiAlphanumeric \/ slot_name[i] = Underscore)
    THEN "Configuration"
    ELSE IF ByteLen(slot_name) >= SlotNameMaxLen THEN "Configuration"
    ELSE "Ok"

\* ReplicationConfig::new: "Ok" or the kind of the error
ReplicationConfig_new(connection_string, publication_name, slot_name) ==
    IF Blank(connection_string) THEN "Configuration"
    ELSE IF Blank(publication_name) THEN "Configuration"
    ELSE IF Blank(slot_name) THEN "Configuration"
    ELSE IF ~(\A i \in DOMAIN slot_name :
                 slot_name[i] \in AsciiAlphanumeric \/ slot_name[i] = Underscore)
    THEN "Configuration"
    ELSE IF ByteLen(slot_name) > SlotNameMaxLen THEN "Configuration"
    ELSE "Ok"

Config(connection_string, publication_name, slot_name, built) ==
    [connection_string |-> connection_string, publication_name |-> publication_name,
     slot_name |-> slot_name, built |-> built]

\* a configuration that new has accepted: "c", "pub", "sub"
DefaultConfig == Config(<<99>>, <<112, 117, 98>>, <<115, 117, 98>>, "Ok")

\* no process around the engine
NoProcess == [pc |-> "none"]

-----------------------------------------------------------------------------
(* The replication loop *)

Unparsed == [kind |-> "None"]
NoOrigin == [msg |-> [type |-> "none"], rxid |-> None]

Fail(kind) == /\ status' = "STOPPED"
              /\ error' = kind

Continue == /\ pc' = "head"
            /\ UNCHANGED <<status, error>>

\* faulty variant: the feedback is due as soon as the interval is reached
CheckAndSendFeedback_at_interval ==
    /\ status = "STREAMING" /\ pc = "head"
    /\ \E tx \in TxOutcomes :
         IF now - last_feedback_time >= feedback_interval_secs
         THEN LET r == send_feedback(received_lsn, now, tx)
              IN  /\ calls' = r.calls
                  /\ IF r.ok
                     THEN /\ last_feedback_time' = now
                          /\ pc' = "poll"
                          /\ UNCHANGED <<status, error>>
                     ELSE /\ Fail("Protocol")
                          /\ UNCHANGED <<last_feedback_time, pc>>
         ELSE /\ calls' = <<>>
              /\ pc' = "poll"
              /\ UNCHANGED <<last_feedback_time, status, error>>
    /\ UNCHANGED <<relations, received_lsn, flushed_lsn, in_streaming_txn,
                   streaming_xid, now, report, wire, lsn_inputs, cancelled>>
    /\ UNCHANGED parseVars
    /\ UNCHANGED procVars
    /\ UNCHANGED before

\* check_and_send_feedback, at the head of the loop
CheckAndSendFeedback ==
    /\ status = "STREAMING" /\ pc = "head"
    /\ \E tx \in TxOutcomes :
         IF now - last_feedback_time > feedback_interval_secs
         THEN LET r == send_feedback(received_lsn, now, tx)
              IN  /\ calls' = r.calls
                  /\ IF r.ok
                     THEN /\ last_feedback_time' = now
                          /\ pc' = "poll"
                          /\ UNCHANGED <<status, error>>
                     ELSE /\ Fail("Protocol")
                          /\ UNCHANGED <<last_feedback_time, pc>>
         ELSE /\ calls' = <<>>
              /\ pc' = "poll"
              /\ UNCHANGED <<last_feedback_time, status, error>>
    /\ UNCHANGED <<relations, received_lsn, flushed_lsn, in_streaming_txn,
                   streaming_xid, now, report, wire, lsn_inputs, cancelled>>
    /\ UNCHANGED parseVars
    /\ UNCHANGED procVars
    /\ UNCHANGED before

\* faulty variant: the end of the COPY stream is an error
get_copy_data_eof_is_error(len, buffer_is_null) ==
    IF len = -2 \/ len = -1 THEN [kind |-> "Err", error |-> "Protocol"]
    ELSE IF len = 0 THEN [kind |-> "None"]
    ELSE IF buffer_is_null THEN [kind |-> "Err", error |-> "Buffer"]
    ELSE [kind |-> "Some"]

\* PGConnection::get_copy_data, by the result of PQgetCopyData
get_copy_data(len, buffer_is_null) ==
    IF len = -2 THEN [kind |-> "Err", error |-> "Protocol"]
    ELSE IF len = -1 THEN [kind |-> "None"]
    ELSE IF len = 0 THEN [kind |-> "None"]
    ELSE IF buffer_is_null THEN [kind |-> "Err", error |-> "Buffer"]
    ELSE [kind |-> "Some"]

\* get_copy_data fails
PollError ==
    /\ status = "STREAMING" /\ pc = "poll"
    /\ calls' = Append(calls, GetCall)
    /\ get_copy_data(-2, FALSE).kind = "Err"
    /\ Fail(get_copy_data(-2, FALSE).error)
    /\ wire' = SentOther("error", 0)
    /\ UNCHANGED <<pc, now, report, lsn_inputs, cancelled>>
    /\ UNCHANGED stateVars
    /\ UNCHANGED parseVars
    /\ UNCHANGED procVars
    /\ UNCHANGED before

\* no data, or the end of the COPY stream: sleep 10 ms and continue
PollNoData ==
    /\ status = "STREAMING" /\ pc = "poll"
    /\ calls' = Append(calls, GetCall)
    /\ \E len \in {0, -1} :
          /\ wire' = SentOther("nodata", 0) @@ [copy_result |-> len]
          /\ IF get_copy_data(len, FALSE).kind = "None"
             THEN Continue
             ELSE Fail(get_copy_data(len, FALSE).error) /\ UNCHANGED pc
    /\ UNCHANGED <<now, report, lsn_inputs, cancelled>>
    /\ UNCHANGED stateVars
    /\ UNCHANGED parseVars
    /\ UNCHANGED procVars
    /\ UNCHANGED before

\* frames with another first byte: CopyDone 'c', and a keepalive whose tag
\* is in upper case
UnknownFrames == { <<99>>, <<75>> \o Tail(KeepaliveFrame(1, 1)) }

\* faulty variant: the dropped frame is answered with a feedback
PollUnknown_answers ==
    /\ status = "STREAMING" /\ pc = "poll"
    /\ \E data \in UnknownFrames :
          /\ data[1] \notin {FrameK, FrameW}
          /\ wire' = SentFrame("unknown", 0, data)
    /\ calls' = Append(calls, GetCall) \o send_feedback(received_lsn, now, "ok").calls
    /\ report' = Report("warn", "UnknownFrame", 0, FALSE, None)
    /\ Continue
    /\ UNCHANGED <<now, lsn_inputs, cancelled>>
    /\ UNCHANGED stateVars
    /\ UNCHANGED parseVars
    /\ UNCHANGED procVars
    /\ UNCHANGED before

\* a frame that is neither 'k' nor 'w': warn and drop
PollUnknown ==
    /\ status = "STREAMING" /\ pc = "poll"
    /\ \E data \in UnknownFrames :
          /\ data[1] \notin {FrameK, FrameW}
          /\ wire' = SentFrame("unknown", 0, data)
    /\ calls' = Append(calls, GetCall)
    /\ report' = Report("warn", "UnknownFrame", 0, FALSE, None)
    /\ Continue
    /\ UNCHANGED <<now, lsn_inputs, cancelled>>
    /\ UNCHANGED stateVars
    /\ UNCHANGED parseVars
    /\ UNCHANGED procVars
    /\ UNCHANGED before

\* process_keepalive_message
ProcessKeepalive(data, sent, tx) ==
    /\ status = "STREAMING" /\ pc = "poll"
    /\ wire' = sent
    /\ IF Len(data) < KeepaliveMinLen
       THEN /\ Fail("Protocol")
            /\ calls' = Append(calls, GetCall)
            /\ report' = NoReport
            /\ UNCHANGED <<received_lsn, pc, lsn_inputs>>
       ELSE LET log_pos == read_u64(data, 1).val
                lsn == update_lsn(received_lsn, log_pos)
                r == keepalive_feedback(data, lsn, now, tx)
            IN  /\ received_lsn' = lsn
                /\ lsn_inputs' = lsn_inputs \cup {log_pos}
                /\ calls' = Append(calls, GetCall) \o r.calls
                /\ report' = Report("none", "Keepalive", 0, FALSE, None)
                /\ IF r.ok THEN Continue ELSE Fail("Protocol") /\ UNCHANGED pc
    /\ UNCHANGED <<relations, flushed_lsn, last_feedback_time, in_streaming_txn,
                   streaming_xid, now, cancelled>>
    /\ UNCHANGED parseVars
    /\ UNCHANGED procVars
    /\ UNCHANGED before

\* process_wal_message, from the parse of the payload on: parsed is the
\* parser's result and lsn the received LSN after the frame's header
WalPayload(parsed, lsn, tx) ==
    IF parsed.kind # "Ok"
    THEN /\ Fail(IF parsed.kind = "Panic" THEN "Panic" ELSE "Parse")
         /\ calls' = Append(calls, GetCall)
         /\ report' = NoReport
         /\ UNCHANGED <<relations, in_streaming_txn, streaming_xid, pc>>
    ELSE LET d == process_replication_message(parsed.msg, relations,
                      in_streaming_txn, streaming_xid)
             r == send_feedback(lsn, now, tx)
         IN  /\ relations' = d.relations
             /\ in_streaming_txn' = d.in_streaming_txn
             /\ streaming_xid' = d.streaming_xid
             /\ report' = d.report
             /\ IF ~d.ok
                THEN /\ Fail("Protocol") /\ UNCHANGED pc
                     /\ calls' = Append(calls, GetCall)
                ELSE /\ calls' = Append(calls, GetCall) \o r.calls
                     /\ IF r.ok THEN Continue ELSE Fail("Protocol") /\ UNCHANGED pc

\* faulty variant: the feedback reports the LSN received before the frame
WalHeader_feedback_stale(data, data_start, tx) ==
    LET lsn == IF data_start > 0 THEN update_lsn(received_lsn, data_start)
               ELSE received_lsn
    IN  /\ received_lsn' = lsn
        /\ lsn_inputs' = IF data_start > 0 THEN lsn_inputs \cup {data_start}
                         ELSE lsn_inputs
        /\ IF remaining(data, WalHeaderLen) = 0
           THEN /\ Fail("Protocol")
                /\ calls' = Append(calls, GetCall)
                /\ report' = NoReport
                /\ UNCHANGED <<relations, in_streaming_txn, streaming_xid, pc>>
           ELSE WalPayload(parse_wal_message(SubSeq(data, WalHeaderLen + 1, Len(data)),
                                             in_streaming_txn),
                           received_lsn, tx)

\* faulty variant: the parser is always told that no stream is open
WalHeader_parses_outside_stream(data, data_start, tx) ==
    LET lsn == IF data_start > 0 THEN update_lsn(received_lsn, data_start)
               ELSE received_lsn
    IN  /\ received_lsn' = lsn
        /\ lsn_inputs' = IF data_start > 0 THEN lsn_inputs \cup {data_start}
                         ELSE lsn_inputs
        /\ IF remaining(data, WalHeaderLen) = 0
           THEN /\ Fail("Protocol")
                /\ calls' = Append(calls, GetCall)
                /\ report' = NoReport
                /\ UNCHANGED <<relations, in_streaming_txn, streaming_xid, pc>>
           ELSE WalPayload(parse_wal_message(SubSeq(data, WalHeaderLen + 1, Len(data)),
                                             FALSE),
                           lsn, tx)

\* faulty variant: the LSN of the frame is kept only when its payload parses
WalHeader_lsn_after_parse(data, data_start, tx) ==
    LET lsn == IF data_start > 0 THEN update_lsn(received_lsn, data_start)
               ELSE received_lsn
        parsed == parse_wal_message(SubSeq(data, WalHeaderLen + 1, Len(data)),
                                    in_streaming_txn)
    IN  /\ received_lsn' = IF parsed.kind = "Ok" THEN lsn ELSE received_lsn
        /\ lsn_inputs' = IF data_start > 0 THEN lsn_inputs \cup {data_start}
                         ELSE lsn_inputs
        /\ IF remaining(data, WalHeaderLen) = 0
           THEN /\ Fail("Protocol")
                /\ calls' = Append(calls, GetCall)
                /\ report' = NoReport
                /\ UNCHANGED <<relations, in_streaming_txn, streaming_xid, pc>>
           ELSE WalPayload(parsed, lsn, tx)

\* process_wal_message, after the length check: the header of the frame
WalHeader(data, data_start, tx) ==
    LET lsn == IF data_start > 0 THEN update_lsn(received_lsn, data_start)
               ELSE received_lsn
    IN  /\ received_lsn' = lsn
        /\ lsn_inputs' = IF data_start > 0 THEN lsn_inputs \cup {data_start}
                         ELSE lsn_inputs
        /\ IF remaining(data, WalHeaderLen) = 0
           THEN /\ Fail("Protocol")
                /\ calls' = Append(calls, GetCall)
                /\ report' = NoReport
                /\ UNCHANGED <<relations, in_streaming_txn, streaming_xid, pc>>
           ELSE WalPayload(parse_wal_message(SubSeq(data, WalHeaderLen + 1, Len(data)),
                                             in_streaming_txn),
                           lsn, tx)

\* faulty variant: the frame is long enough when data_start can be read
ProcessWal_reads_short_header(data, sent, tx) ==
    /\ status = "STREAMING" /\ pc = "poll"
    /\ wire' = sent
    /\ IF Len(data) < 1 + 8
       THEN /\ Fail("Protocol")
            /\ calls' = Append(calls, GetCall)
            /\ report' = NoReport
            /\ UNCHANGED <<relations, received_lsn, in_streaming_txn, streaming_xid, pc,
                           lsn_inputs>>
       ELSE WalHeader(data, read_u64(data, 1).val, tx)
    /\ UNCHANGED <<flushed_lsn, last_feedback_time, now, cancelled>>
    /\ UNCHANGED parseVars
    /\ UNCHANGED procVars

\* process_wal_message
ProcessWal(data, sent, tx) ==
    /\ status = "STREAMING" /\ pc = "poll"
    /\ wire' = sent
    /\ IF Len(data) < WalMinLen
       THEN /\ Fail("Protocol")
            /\ calls' = Append(calls, GetCall)
            /\ report' = NoReport
            /\ UNCHANGED <<relations, received_lsn, in_streaming_txn, streaming_xid, pc,
                           lsn_inputs>>
       ELSE WalHeader(data, read_u64(data, 1).val, tx)
    /\ UNCHANGED <<flushed_lsn, last_feedback_time, now, cancelled>>
    /\ UNCHANGED parseVars
    /\ UNCHANGED procVars

\* a frame cut one byte before its end
ShortFrames(frame) == {SubSeq(frame, 1, Len(frame) - 1)}

PollKeepalive ==
    \E tx \in TxOutcomes :
        \/ \E l \in 0..MaxLsn, reply \in {0, 1} :
              ProcessKeepalive(KeepaliveFrame(l, reply), SentOther("Keepalive", l), tx)
        \/ \E data \in ShortFrames(KeepaliveFrame(1, 0)) :
              ProcessKeepalive(data, SentFrame("short", 1, data), tx)

\* 'w' frames: a message of os, a payload that is no message, no payload at
\* all, a frame cut short of its 25 bytes; each with what the server meant
\* by it
WalFrameSet(os, lsns) ==
    {[data |-> WalFrame(l, Wire(o)), sent |-> Sent(o, l)] : l \in lsns, o \in os}
    \cup {[data |-> WalFrame(l, p), sent |-> SentOther("garbage", l) @@ [payload |-> p]] :
             l \in lsns, p \in BadPayloads \cup {<<>>}}
    \cup UNION {{[data |-> d, sent |-> SentFrame("short", l, d)] :
                    d \in ShortFrames(WalFrame(l, <<>>))} : l \in lsns}

WalFrames(frames, txs) ==
    \E tx \in txs, f \in frames : ProcessWal(f.data, f.sent, tx)

\* keepalives carry every LSN; the XLogData frames of the loop carry 0 or 1.
\* A stream is opened by a frame at 0 and stays open (streams are opened and
\* closed at every LSN in DispatchSpec and WalSpec).
LoopFrames ==
    WalFrameSet({o \in LoopOrigins : o.msg.type \notin {"StreamStart", "StreamStop"}},
                {0, 1})
    \cup WalFrameSet({o \in LoopOrigins : o.msg.type = "StreamStart"}, {0})
EngineFrames == WalFrameSet(EngineOrigins, {1})

PollWal == WalFrames(LoopFrames, TxOutcomes) /\ UNCHANGED before

\* every message, with a transport that works; the state the frame met is
\* kept for the record
PollWalAnyMessage ==
    /\ WalFrames(EngineFrames, {"ok"})
    /\ before' = Snapshot(relations, in_streaming_txn, streaming_xid)

\* time passes
Tick ==
    /\ status = "STREAMING"
    /\ now < MaxClock
    /\ now' = now + 1
    /\ UNCHANGED <<pc, status, error, calls, report, wire, lsn_inputs, cancelled>>
    /\ UNCHANGED stateVars
    /\ UNCHANGED parseVars
    /\ UNCHANGED procVars
    /\ UNCHANGED before

Init ==
    /\ relations = New.relations
    /\ received_lsn = New.received_lsn
    /\ flushed_lsn = New.flushed_lsn
    /\ last_feedback_time = 0
    /\ in_streaming_txn = New.in_streaming_txn
    /\ streaming_xid = New.streaming_xid
    /\ pc = "head" /\ status = "STREAMING" /\ error = "none"
    /\ now = 0 /\ calls = <<>> /\ report = NoReport /\ wire = NotSent
    /\ lsn_inputs = {} /\ cancelled = FALSE
    /\ before = Snapshot(<<>>, FALSE, None)
    /\ buf = <<>> /\ flag = FALSE /\ origin = NoOrigin /\ result = Unparsed
    /\ config = DefaultConfig /\ process = NoProcess

Next ==
    \/ CheckAndSendFeedback
    \/ PollError
    \/ PollNoData
    \/ PollUnknown
    \/ PollKeepalive
    \/ PollWal
    \/ Tick

Spec == Init /\ [][Next]_vars

\* the loop fed every message of EngineMsgs, with a transport that works
DispatchNext ==
    \/ CheckAndSendFeedback
    \/ PollNoData
    \/ PollWalAnyMessage

DispatchSpec == Init /\ [][DispatchNext]_vars

\* the loop fed XLogData frames only, carrying every LSN, with a transport
\* that may fail
PollWalAnyLsn ==
    WalFrames(WalFrameSet(LoopOrigins, 0..MaxLsn), TxOutcomes) /\ UNCHANGED before

WalNext ==
    \/ CheckAndSendFeedback
    \/ PollWalAnyLsn

WalSpec == Init /\ [][WalNext]_vars

\* the largest flags value of a Truncate: the byte is read as an i8
FlagsMax == 127

\* Truncate messages for one relation with every flags value from 0 up
TruncateOrigins ==
    {[msg |-> [type |-> "Truncate", relation_ids |-> <<OidN>>, flags |-> f,
               is_stream |-> FALSE, xid |-> None],
      rxid |-> None] : f \in 0..FlagsMax}

\* the loop fed Truncate messages, with a transport that works
PollTruncate == WalFrames(WalFrameSet(TruncateOrigins, {1}), {"ok"}) /\ UNCHANGED before

TruncateNext ==
    \/ CheckAndSendFeedback
    \/ PollTruncate

TruncateSpec == Init /\ [][TruncateNext]_vars

-----------------------------------------------------------------------------
(* The whole session: handshake, loop, interrupt and release of the         *)
(* connection.  The caller of ReplicationServer is not among the sources;   *)
(* the order new, identify_system, create_replication_slot_and_start is     *)
(* that of the state machine of section 4.4 of the specification.           *)

\* what PQconnectdb gives: a good connection, no object, a bad connection
ConnectOutcomes == {"ok", "null", "bad"}
\* what PQexec gives: a result with ok status, a result with another status,
\* no result at all
ExecOutcomes == {"ok", "bad_status", "null"}

ConnectCall(outcome) == [call |-> "connect", data |-> <<>>, outcome |-> outcome]
ExecCall(query, outcome) ==
    [call |-> "exec", data |-> <<>>, query |-> query, outcome |-> outcome]
FinishCall == [call |-> "finish", data |-> <<>>]

SessionInit ==
    /\ relations = <<>> /\ received_lsn = 0 /\ flushed_lsn = 0
    /\ last_feedback_time = 0
    /\ in_streaming_txn = FALSE /\ streaming_xid = None
    /\ pc = "head" /\ status = "NEW" /\ error = "none"
    /\ now = 0 /\ calls = <<>> /\ report = NoReport /\ wire = NotSent
    /\ lsn_inputs = {} /\ cancelled = FALSE
    /\ before = Snapshot(<<>>, FALSE, None)
    /\ buf = <<>> /\ flag = FALSE /\ origin = NoOrigin /\ result = Unparsed
    /\ config = DefaultConfig /\ process = NoProcess

\* faulty variant: a connection that is not good is returned as an error
\* and left open
connect_leaks_bad(outcome) ==
    [ok |-> outcome = "ok", calls |-> <<ConnectCall(outcome)>>]

\* PGConnection::connect: no object is an error; an object whose status is
\* not CONNECTION_OK is finished and is an error
connect(outcome) ==
    [ok |-> outcome = "ok",
     calls |-> <<ConnectCall(outcome)>>
                   \o (IF outcome = "bad" THEN <<FinishCall>> ELSE <<>>)]

\* ReplicationServer::new: connect, then a fresh session state
Connect ==
    /\ status = "NEW"
    /\ config.built = "Ok"
    /\ \E o \in ConnectOutcomes :
          /\ calls' = connect(o).calls
          /\ IF connect(o).ok
             THEN /\ status' = "CONNECTED"
                  /\ relations' = New.relations
                  /\ received_lsn' = New.received_lsn
                  /\ flushed_lsn' = New.flushed_lsn
                  /\ in_streaming_txn' = New.in_streaming_txn
                  /\ streaming_xid' = New.streaming_xid
                  /\ last_feedback_time' = now
                  /\ UNCHANGED error
             ELSE /\ status' = "CLOSED"
                  /\ error' = "Connection"
                  /\ UNCHANGED stateVars
    /\ UNCHANGED <<pc, now, report, wire, lsn_inputs, cancelled>>
    /\ UNCHANGED parseVars
    /\ UNCHANGED procVars
    /\ UNCHANGED before

\* the rows a result carries; no result carries none
MaxRows == 2
IdentifyResults ==
    {[outcome |-> o, ntuples |-> n] : o \in {"ok", "bad_status"}, n \in 0..MaxRows}
    \cup {[outcome |-> "null", ntuples |-> 0]}
IdentifyCall(r) == ExecCall("IDENTIFY_SYSTEM", r.outcome) @@ [ntuples |-> r.ntuples]

\* faulty variant: the status alone decides
identify_system_ignores_rows(r) ==
    IF r.outcome = "ok" THEN "Ok" ELSE "Protocol"

\* identify_system: Ok for a result with ok status and a row, a Protocol
\* error for any other result and for none
identify_system(r) ==
    IF r.outcome = "null" THEN "Protocol"
    ELSE IF r.outcome = "ok" /\ r.ntuples > 0 THEN "Ok"
    ELSE "Protocol"

IdentifySystemFrom(positions) ==
    /\ status \in positions
    /\ \E r \in IdentifyResults :
          /\ calls' = Append(calls, IdentifyCall(r))
          /\ IF identify_system(r) = "Ok"
             THEN status' = "IDENTIFIED" /\ UNCHANGED error
             ELSE Fail(identify_system(r))
    /\ UNCHANGED <<pc, now, report, wire, lsn_inputs, cancelled>>
    /\ UNCHANGED stateVars
    /\ UNCHANGED parseVars
    /\ UNCHANGED procVars
    /\ UNCHANGED before

\* identify_system, called once the connection is there
IdentifySystem == IdentifySystemFrom({"CONNECTED"})

\* create_replication_slot: Err when exec gives no result, a warning when
\* the result is not ok
create_replication_slot(outcome) ==
    IF outcome = "null" THEN [ok |-> FALSE, report |-> NoReport]
    ELSE IF outcome = "bad_status"
         THEN [ok |-> TRUE, report |-> Report("warn", "SlotCreation", 0, FALSE, None)]
         ELSE [ok |-> TRUE, report |-> Report("info", "SlotCreation", 0, FALSE, None)]

\* create_replication_slot_and_start, up to the entry of the loop:
\* start_replication looks only at whether exec gave a result
CreateReplicationSlotAndStartFrom(positions) ==
    /\ status \in positions
    /\ \E oc \in ExecOutcomes, os \in ExecOutcomes :
          LET created == create_replication_slot(oc)
          IN  /\ report' = created.report
              /\ IF ~created.ok
                 THEN /\ calls' = Append(calls, ExecCall("CREATE_REPLICATION_SLOT", oc))
                      /\ Fail("Protocol")
                 ELSE /\ calls' = calls \o <<ExecCall("CREATE_REPLICATION_SLOT", oc),
                                            ExecCall("START_REPLICATION", os)>>
                      /\ IF os = "null"
                         THEN Fail("Protocol")
                         ELSE status' = "STREAMING" /\ UNCHANGED error
    /\ UNCHANGED <<pc, now, wire, lsn_inputs, cancelled>>
    /\ UNCHANGED stateVars
    /\ UNCHANGED parseVars
    /\ UNCHANGED procVars
    /\ UNCHANGED before

\* create_replication_slot_and_start, called after identify_system succeeded
CreateReplicationSlotAndStart == CreateReplicationSlotAndStartFrom({"IDENTIFIED"})

\* the interrupt task, installed once the stream has started, signals the
\* token; the engine holds no reference to it
Cancel ==
    /\ ~cancelled
    /\ status = "STREAMING"
    /\ cancelled' = TRUE
    /\ UNCHANGED <<pc, status, error, now, calls, report, wire, lsn_inputs>>
    /\ UNCHANGED stateVars
    /\ UNCHANGED parseVars
    /\ UNCHANGED procVars
    /\ UNCHANGED before

\* the error has reached the caller and the server is dropped: PQfinish
Close ==
    /\ status = "STOPPED"
    /\ status' = "CLOSED"
    /\ calls' = Append(calls, FinishCall)
    /\ UNCHANGED <<pc, error, now, report, wire, lsn_inputs, cancelled>>
    /\ UNCHANGED stateVars
    /\ UNCHANGED parseVars
    /\ UNCHANGED procVars
    /\ UNCHANGED before

\* 'w' frames that are no message
PollWalBroken == WalFrames(WalFrameSet({}, {1}), {"ok"}) /\ UNCHANGED before

SessionNext ==
    \/ Connect
    \/ IdentifySystem
    \/ CreateReplicationSlotAndStart
    \/ CheckAndSendFeedback
    \/ PollError
    \/ PollNoData
    \/ PollKeepalive
    \/ PollWalBroken
    \/ Tick
    \/ Cancel
    \/ Close

SessionSpec == SessionInit /\ [][SessionNext]_vars

\* the loop is a task that keeps running: a step is taken whenever one can be
FairSessionSpec == SessionSpec /\ WF_vars(SessionNext)

\* ReplicationConfig::new on every kind of input, then ReplicationServer::new
\* with the configuration it returned.
MaxNameLen == 2
NameChars == {97, 90, 48, Underscore, 45, 32, 233}
ShortNames == UNION {[1..n -> NameChars] : n \in 0..MaxNameLen}
Repeat(c, n) == [i \in 1..n |-> c]
LongNames ==
    {Repeat(c, n) \o tail : c \in {97, Underscore},
                            n \in (SlotNameMaxLen - 2)..SlotNameMaxLen,
                            tail \in {<<>>, <<48>>, <<45>>, <<233>>}}
OtherStrings == {<<>>, <<32>>, <<9, 32>>, <<99>>}

ConfigInit ==
    /\ relations = <<>> /\ received_lsn = 0 /\ flushed_lsn = 0
    /\ last_feedback_time = 0
    /\ in_streaming_txn = FALSE /\ streaming_xid = None
    /\ pc = "head" /\ status = "NEW" /\ error = "none"
    /\ now = 0 /\ calls = <<>> /\ report = NoReport /\ wire = NotSent
    /\ lsn_inputs = {} /\ cancelled = FALSE
    /\ before = Snapshot(<<>>, FALSE, None)
    /\ buf = <<>> /\ flag = FALSE /\ origin = NoOrigin /\ result = Unparsed
    /\ process = NoProcess
    /\ \E cs \in OtherStrings, pn \in OtherStrings, sn \in ShortNames \cup LongNames :
          config = Config(cs, pn, sn, "no")

NewConfig ==
    /\ config.built = "no"
    /\ config' = [config EXCEPT !.built =
                      ReplicationConfig_new(config.connection_string,
                                            config.publication_name, config.slot_name)]
    /\ UNCHANGED <<process, before>>
    /\ UNCHANGED stateVars
    /\ UNCHANGED loopVars
    /\ UNCHANGED parseVars

ConfigNext ==
    \/ NewConfig
    \/ Connect

ConfigSpec == ConfigInit /\ [][ConfigNext]_vars

-----------------------------------------------------------------------------
(* The process (main.rs): main and run_replication_stream around the stream *)
(* of the pg_walstream crate.  The stream is not code of this repository:   *)
(* each call on it returns Ok or Err, as its signature allows.              *)

MaxEvents == 2

EngineVarsIdle ==
    /\ relations = <<>> /\ received_lsn = 0 /\ flushed_lsn = 0
    /\ last_feedback_time = 0
    /\ in_streaming_txn = FALSE /\ streaming_xid = None
    /\ pc = "head" /\ status = "NEW" /\ error = "none"
    /\ now = 0 /\ calls = <<>> /\ report = NoReport /\ wire = NotSent
    /\ lsn_inputs = {}
    /\ before = Snapshot(<<>>, FALSE, None)
    /\ buf = <<>> /\ flag = FALSE /\ origin = NoOrigin /\ result = Unparsed
    /\ config = DefaultConfig

MainInit ==
    /\ EngineVarsIdle
    /\ cancelled = FALSE
    /\ process = [pc |-> "setup", handler |-> "none", interrupted |-> FALSE,
                  killed |-> FALSE, result |-> "none", exit_code |-> None,
                  applied_lsn |-> 0, events |-> 0]

MainStep ==
    /\ UNCHANGED <<config, before>>
    /\ UNCHANGED stateVars
    /\ UNCHANGED <<pc, status, error, now, calls, report, wire, lsn_inputs>>
    /\ UNCHANGED parseVars

\* a call that ends run_replication_stream, or main, through `?`
Returns(r) == process' = [process EXCEPT !.pc = "return", !.result = r]
Goes(to) == process' = [process EXCEPT !.pc = to]

\* main up to the call of run_replication_stream: logging, environment
MainSetup ==
    /\ process.pc = "setup"
    /\ \E ok \in BOOLEAN : IF ok THEN Goes("new") ELSE Returns("Err")
    /\ UNCHANGED cancelled /\ MainStep

\* LogicalReplicationStream::new(..).await?
StreamNew ==
    /\ process.pc = "new"
    /\ \E ok \in BOOLEAN : IF ok THEN Goes("start") ELSE Returns("Err")
    /\ UNCHANGED cancelled /\ MainStep

\* stream.start(None).await?: from here on the stream is started
StreamStart ==
    /\ process.pc = "start"
    /\ \E ok \in BOOLEAN : IF ok THEN Goes("token") ELSE Returns("Err")
    /\ UNCHANGED cancelled /\ MainStep

\* the token is created and the interrupt task spawned
SpawnInterruptTask ==
    /\ process.pc = "token"
    /\ process' = [process EXCEPT !.pc = "head", !.handler = "spawned"]
    /\ UNCHANGED cancelled /\ MainStep

\* the interrupt task runs for the first time: signal::ctrl_c() registers
\* the handler, or fails and the task panics in expect
InstallHandler ==
    /\ process.pc \notin {"exited", "none"}
    /\ process.handler = "spawned"
    /\ \E h \in {"installed", "failed"} : process' = [process EXCEPT !.handler = h]
    /\ UNCHANGED cancelled /\ MainStep

\* the interrupt signal arrives: the task signals the token if the handler
\* is registered; otherwise the signal has its default effect and ends the
\* process
Interrupt ==
    /\ process.pc \notin {"exited", "none"}
    /\ ~process.interrupted
    /\ IF process.handler = "installed"
       THEN /\ cancelled' = TRUE
            /\ process' = [process EXCEPT !.interrupted = TRUE]
       ELSE /\ UNCHANGED cancelled
            /\ process' = [process EXCEPT !.interrupted = TRUE, !.killed = TRUE,
                                          !.pc = "exited"]
    /\ MainStep

\* head of the loop of run_replication_stream
LoopHead ==
    /\ process.pc = "head"
    /\ IF cancelled THEN Goes("stop") ELSE Goes("next_event")
    /\ UNCHANGED cancelled /\ MainStep

\* stream.next_event(&cancel_token).await?: an event with or without an
\* LSN, no event, or an error
NextEvent ==
    /\ process.pc = "next_event"
    /\ \/ /\ process.events < MaxEvents
          /\ \E lsn \in {None} \cup {Some(l) : l \in 1..MaxLsn} :
                process' = [process EXCEPT
                               !.pc = "head", !.events = @ + 1,
                               !.applied_lsn = IF lsn = None THEN @ ELSE lsn[1]]
       \/ Goes("head")
       \/ Returns("Err")
    /\ UNCHANGED cancelled /\ MainStep

\* stream.stop().await?
StreamStop ==
    /\ process.pc = "stop"
    /\ \E ok \in BOOLEAN : Returns(IF ok THEN "Ok" ELSE "Err")
    /\ UNCHANGED cancelled /\ MainStep

\* main returns the result: Ok(()) is exit code 0, Err is exit code 1
MainReturn ==
    /\ process.pc = "return"
    /\ process' = [process EXCEPT !.pc = "exited",
                       !.exit_code = IF process.result = "Ok" THEN Some(0) ELSE Some(1)]
    /\ UNCHANGED cancelled /\ MainStep

MainNext ==
    \/ MainSetup
    \/ StreamNew
    \/ StreamStart
    \/ SpawnInterruptTask
    \/ InstallHandler
    \/ Interrupt
    \/ LoopHead
    \/ NextEvent
    \/ StreamStop
    \/ MainReturn

MainSpec == MainInit /\ [][MainNext]_vars

\* The public operations called in any order on a server that new returned:
\* both take the server by reference and look at no record of what was
\* called before.
\* the calls a caller makes before it starts the stream are capped
MaxCalls == 3
IdentifySystemAnyTime ==
    /\ Len(calls) < MaxCalls
    /\ IdentifySystemFrom({"CONNECTED", "IDENTIFIED"})
CreateReplicationSlotAndStartAnyTime ==
    CreateReplicationSlotAndStartFrom({"CONNECTED", "IDENTIFIED"})

ApiNext ==
    \/ Connect
    \/ IdentifySystemAnyTime
    \/ CreateReplicationSlotAndStartAnyTime
    \/ CheckAndSendFeedback
    \/ PollError
    \/ PollNoData
    \/ PollKeepalive
    \/ Tick
    \/ Close

ApiSpec == SessionInit /\ [][ApiNext]_vars


-----------------------------------------------------------------------------
(* The parser on its own: a buffer is drawn (a message of WireMsgs as the   *)
(* server encodes it, or a prefix of that encoding) with a value of the     *)
(* session flag, and parse_wal_message is applied to it.                    *)

ParseInit ==
    /\ relations = New.relations
    /\ received_lsn = New.received_lsn
    /\ flushed_lsn = New.flushed_lsn
    /\ last_feedback_time = 0
    /\ in_streaming_txn = New.in_streaming_txn
    /\ streaming_xid = New.streaming_xid
    /\ pc = "head" /\ status = "STREAMING" /\ error = "none"
    /\ now = 0 /\ calls = <<>> /\ report = NoReport /\ wire = NotSent
    /\ lsn_inputs = {} /\ cancelled = FALSE
    /\ before = Snapshot(<<>>, FALSE, None)
    /\ result = Unparsed
    /\ config = DefaultConfig /\ process = NoProcess
    /\ \E o \in Origins, f \in BOOLEAN :
          \E n \in 0..Len(Wire(o)) :
             /\ origin = o
             /\ flag = f
             /\ buf = SubSeq(Wire(o), 1, n)

Parse ==
    /\ result = Unparsed
    /\ origin # NoOrigin
    /\ result' = parse_wal_message(buf, flag)
    /\ UNCHANGED <<buf, flag, origin>>
    /\ UNCHANGED stateVars
    /\ UNCHANGED loopVars
    /\ UNCHANGED procVars
    /\ UNCHANGED before

ParseSpec == ParseInit /\ [][Parse]_vars

\* the parser on buffers that are no encoding of a message: an encoding with
\* one byte overwritten.  Any byte becomes 0 or 'X' (the tag alone in the
\* messages that carry 64-bit fields), the tag becomes 0xFF, and the high
\* byte of the first column count becomes 0xFF, which makes the count
\* negative.
Overwrites(b, at, vs) == {[b EXCEPT ![i] = v] : i \in at \cap DOMAIN b, v \in vs}

\* where the first column count of the encoding of o starts
CountPositions(o) ==
    IF o.msg.type = "Relation"
    THEN {Len(Wire(o)) - 1 - 11 * o.msg.relation.column_count}
    ELSE IF o.msg.type \in DmlTypes
    THEN {IF o.msg.xid = None THEN 7 ELSE 11}
    ELSE {}

Malformed(o) ==
    Overwrites(Wire(o),
               IF o.msg.type \in {"Begin", "Commit", "StreamCommit"} THEN {1}
               ELSE DOMAIN Wire(o),
               {0, 88})
    \cup Overwrites(Wire(o), {1} \cup CountPositions(o), {255})

MalformedInit ==
    /\ relations = New.relations
    /\ received_lsn = New.received_lsn
    /\ flushed_lsn = New.flushed_lsn
    /\ last_feedback_time = 0
    /\ in_streaming_txn = New.in_streaming_txn
    /\ streaming_xid = New.streaming_xid
    /\ pc = "head" /\ status = "STREAMING" /\ error = "none"
    /\ now = 0 /\ calls = <<>> /\ report = NoReport /\ wire = NotSent
    /\ lsn_inputs = {} /\ cancelled = FALSE
    /\ before = Snapshot(<<>>, FALSE, None)
    /\ result = Unparsed
    /\ config = DefaultConfig /\ process = NoProcess
    /\ \E o \in EngineOrigins, f \in BOOLEAN :
          /\ origin = o
          /\ flag = f
          /\ buf \in Malformed(o)

MalformedSpec == MalformedInit /\ [][Parse]_vars

\* the buffer is the whole encoding of the message drawn
Whole == Len(buf) = Len(Wire(origin))
Parsed == result # Unparsed

-----------------------------------------------------------------------------
(* Properties of the replication loop *)

SetMax(S) == CHOOSE m \in S : \A x \in S : x <= m

\* the frame of the last step reached update_lsn
LsnFrame == wire.type \notin {"none", "short", "unknown", "nodata", "error"}

\* C1: over any sequence of keepalive, XLogData and unknown frames, carrying
\* any LSNs, received_lsn never decreases from one state to the next.
C1_ReceivedLsnNeverDecreases == [][received_lsn' >= received_lsn]_vars

\* a frame carrying an LSN below the one already received has been processed
C1_LowerLsnProcessed ==
    /\ LsnFrame
    /\ wire.lsn > 0
    /\ wire.lsn < received_lsn

\* C2: from a fresh state, after update_lsn has been called with x1 .. xk,
\* received_lsn is max(0, x1, .., xk); a call with 0 leaves it as it was.
C2_ReceivedLsnIsMaxOfInputs ==
    /\ [](received_lsn = SetMax(lsn_inputs \cup {0}))
    /\ [][(pc = "poll" /\ wire'.type = "Keepalive" /\ wire'.lsn = 0)
              => received_lsn' = received_lsn]_vars

\* update_lsn has been called with every value, the last call with 0
C2_ZeroAfterAllInputs ==
    /\ lsn_inputs = 0..MaxLsn
    /\ wire.type = "Keepalive" /\ wire.lsn = 0
    /\ received_lsn = MaxLsn

\* the write and flush positions of a standby status frame
WritePosition(frame) == UnsignedBE(frame, 1, 8)
FlushPosition(frame) == UnsignedBE(frame, 9, 8)
Feedbacks == {i \in DOMAIN calls : calls[i].call = "put_copy_data"}

\* C3: in every reachable state flushed_lsn <= received_lsn, in the session
\* state and in every standby status frame handed to the transport.
C3_FlushedAtMostReceived ==
    /\ flushed_lsn <= received_lsn
    /\ \A i \in Feedbacks :
         /\ FlushPosition(calls[i].data) <= WritePosition(calls[i].data)
         /\ WritePosition(calls[i].data) <= received_lsn

\* a standby status frame has been sent after an LSN was received
C3_FeedbackSent ==
    /\ received_lsn = MaxLsn
    /\ Feedbacks # {}

\* C4: in every reachable state in_streaming_txn is true exactly when
\* streaming_xid is set, whatever StreamStart, StreamStop, StreamCommit and
\* StreamAbort messages have been dispatched, in whatever order.
C4_StreamingFlagIffXid == in_streaming_txn <=> (streaming_xid # None)

\* a StreamStart has been dispatched and its stream is open
C4_StreamOpen ==
    /\ wire.type = "StreamStart"
    /\ report.event = "StreamStart"
    /\ in_streaming_txn
    /\ streaming_xid = Some(7)

\* C5: the dispatch of an Insert, Update or Delete whose relation is not in
\* the cache logs an error for that relation, changes nothing in the session
\* state, and leaves the loop running at its head.
C5_UnknownRelationReportedAndDropped ==
    [][(/\ pc = "poll"
        /\ report'.event \in DmlTypes
        /\ report'.relation_id \notin DOMAIN relations)
       => (/\ report'.level = "error"
           /\ relations' = relations
           /\ in_streaming_txn' = in_streaming_txn
           /\ streaming_xid' = streaming_xid
           /\ status' = "STREAMING" /\ error' = "none"
           /\ pc' = "head")]_vars

\* after such a message the loop has come round to poll the next frame
C5_LoopGoesOn ==
    /\ report.event \in DmlTypes
    /\ report.level = "error"
    /\ report.relation_id \notin DOMAIN relations
    /\ status = "STREAMING"
    /\ pc = "poll"

C7_StreamedDmlCarriesXid ==
    (/\ in_streaming_txn
     /\ wire.type \in DmlTypes \cup {"Truncate"}
     /\ wire.xid = streaming_xid
     /\ report.event = wire.type)
    => (report.is_stream /\ report.xid = streaming_xid)

-----------------------------------------------------------------------------
(* Properties of the parser *)

\* the session flag agrees with the encoding drawn (it matters to Relation)
FlagMatches == origin.msg.type = "Relation" => (flag <=> origin.rxid # None)

StrictPrefix == Parsed /\ ~Whole /\ FlagMatches

\* most significant byte of a relation OID
FirstByte(oid) == oid \div 16777216

\* the DML parser takes the message for one with an XID prefix
TakenAsStreaming(m) ==
    CASE m.type = "Insert" -> insert_streaming(FirstByte(m.relation_id))
      [] m.type = "Update" -> update_streaming(FirstByte(m.relation_id))
      [] m.type = "Delete" -> delete_streaming(FirstByte(m.relation_id))

RejectedPrefix ==
    CASE origin.msg.type \in DmlTypes ->
           origin.msg.xid = None \/ TakenAsStreaming(origin.msg)
      [] origin.msg.type = "StreamStart" -> Len(buf) < 5
      [] origin.msg.type = "Truncate" -> Len(buf) < 10
      [] OTHER -> TRUE

WholeDml == Parsed /\ Whole /\ origin.msg.type \in DmlTypes

\* C9: a well-formed Insert, Update or Delete without an XID prefix, for any
\* OID and any tuple, decodes with is_stream = false, xid = None and the
\* encoded OID as relation_id.
C9_NonStreamingDmlDecoded ==
    (WholeDml /\ origin.msg.xid = None)
    => (/\ result.kind = "Ok"
        /\ result.msg.type = origin.msg.type
        /\ result.msg.is_stream = FALSE
        /\ result.msg.xid = None
        /\ result.msg.relation_id = origin.msg.relation_id)

\* an Update without old tuple, for an OID that begins with a marker byte
C9_PlainUpdateParsed ==
    /\ WholeDml
    /\ origin.msg.type = "Update"
    /\ origin.msg.xid = None
    /\ origin.msg.key_type = None
    /\ origin.msg.relation_id = OidN
    /\ result.kind = "Ok"

\* C10: a well-formed Insert, Update or Delete with an XID prefix, for any
\* XID and any OID, decodes with is_stream = true, the encoded XID as xid
\* and the encoded OID as relation_id.
C10_StreamingDmlDecoded ==
    (WholeDml /\ origin.msg.xid # None)
    => (/\ result.kind = "Ok"
        /\ result.msg.type = origin.msg.type
        /\ result.msg.is_stream = TRUE
        /\ result.msg.xid = origin.msg.xid
        /\ result.msg.relation_id = origin.msg.relation_id)


\* C11: for a buffer whose tag is I, U or D the parser returns the same
\* result, message or error, with in_streaming_txn true as with it false.
C11_DmlResultIgnoresFlag ==
    (Parsed /\ origin.msg.type \in DmlTypes)
    => result = parse_wal_message(buf, ~flag)

\* a streamed Delete has been parsed with the flag set
C11_StreamedDeleteParsedWithFlag ==
    /\ Parsed /\ Whole
    /\ flag
    /\ origin.msg.type = "Delete"
    /\ origin.msg.xid # None
    /\ result.kind = "Ok"

WholeTruncate == Parsed /\ Whole /\ origin.msg.type = "Truncate"

\* the decoded Truncate carries the flags, the relation IDs and the stream
\* fields of the message encoded
TruncateDecodedAsEncoded ==
    /\ result.kind = "Ok"
    /\ result.msg.type = "Truncate"
    /\ result.msg.is_stream = (origin.msg.xid # None)
    /\ result.msg.xid = origin.msg.xid
    /\ result.msg.flags = origin.msg.flags
    /\ result.msg.relation_ids = origin.msg.relation_ids

\* C12: a Truncate without XID prefix (count >= 1, any flags, any relation
\* IDs) decodes with is_stream = false, xid = None, the encoded flags and
\* exactly the count encoded relation IDs.
C12_NonStreamingTruncateDecoded ==
    (WholeTruncate /\ origin.msg.xid = None) => TruncateDecodedAsEncoded

\* C13: a Truncate with XID prefix decodes with is_stream = true, the
\* encoded XID, the encoded flags and exactly the encoded relation IDs.
C13_StreamingTruncateDecoded ==
    (WholeTruncate /\ origin.msg.xid # None) => TruncateDecodedAsEncoded

\* a streamed Truncate of MaxRels relations has been parsed
C13_StreamedTruncateParsed ==
    /\ WholeTruncate
    /\ origin.msg.xid = Some(7)
    /\ Len(origin.msg.relation_ids) = MaxRels
    /\ origin.msg.flags = 1
    /\ result.kind = "Ok"


-----------------------------------------------------------------------------
(* Properties of the standby status feedback *)

\* the transport calls one step of the loop adds: check_and_send_feedback
\* opens an iteration, a poll adds to it
NewCalls == IF pc = "head" THEN calls' ELSE SubSeq(calls', Len(calls) + 1, Len(calls'))

\* the layout of a standby status frame sent at received LSN lsn, clock
\* seconds after 2000-01-01
StandbyStatusLayout(frame, lsn, clock) ==
    /\ Len(frame) = FeedbackLen
    /\ frame[1] = FrameR
    /\ UnsignedBE(frame, 1, 8) = lsn
    /\ UnsignedBE(frame, 9, 8) = lsn
    /\ UnsignedBE(frame, 17, 8) = 0
    /\ SignedBE(frame, 25, 8) = clock * 1000000
    /\ frame[FeedbackLen] = 0

\* every frame handed to the transport is followed at once by a flush, or
\* the transport refused it and the engine stopped on that error
FlushFollowsSend ==
    \A i \in Feedbacks :
        \/ i < Len(calls) /\ calls[i + 1] = FlushCall
        \/ i = Len(calls) /\ status = "STOPPED" /\ error = "Protocol"

\* C14: every standby status frame is 34 bytes: 'r', the received LSN as a
\* big-endian u64, the same value again as the flushed position, 0 as the
\* applied position, the current PostgreSQL timestamp as a big-endian i64 and
\* a final 0 byte; each send is followed by a flush of the transport before
\* any other transport call.
C14_StandbyStatusLayoutAndFlush ==
    /\ []FlushFollowsSend
    /\ [][calls' # calls =>
            \A i \in DOMAIN NewCalls :
                NewCalls[i].call = "put_copy_data"
                    => StandbyStatusLayout(NewCalls[i].data, received_lsn', now)]_vars

\* a frame has been sent and flushed after the clock advanced, at an LSN
\* above 1
C14_FrameSentAndFlushed ==
    /\ now = MaxClock
    /\ received_lsn = MaxLsn
    /\ status = "STREAMING"
    /\ \E i \in Feedbacks :
          /\ SignedBE(calls[i].data, 25, 8) = MaxClock * 1000000
          /\ WritePosition(calls[i].data) = MaxLsn
          /\ i < Len(calls) /\ calls[i + 1] = FlushCall

\* C15: while received_lsn is 0 the engine writes nothing to the transport:
\* no periodic frame, none after a keepalive, none after an XLogData frame.
C15_NothingSentAtLsnZero ==
    received_lsn = 0 => \A i \in DOMAIN calls : calls[i].call = "get_copy_data"

\* at LSN 0 the periodic check has fired, and an XLogData frame and then a
\* keepalive have been processed
C15_FramesProcessedAtLsnZero ==
    /\ received_lsn = 0
    /\ last_feedback_time > 0
    /\ relations # New.relations
    /\ wire.type = "Keepalive"

\* a step that processes a 'k' frame of at least 18 bytes
KeepaliveStep ==
    /\ pc = "poll" /\ status = "STREAMING"
    /\ wire'.type = "Keepalive"
    /\ calls' # calls

\* the standby status frames the step hands to the transport
NewFeedbacks == {i \in DOMAIN NewCalls : NewCalls[i].call = "put_copy_data"}

KeepaliveAnswered ==
    /\ Cardinality(NewFeedbacks) = 1
    /\ \A i \in NewFeedbacks :
          /\ WritePosition(NewCalls[i].data) = received_lsn'
          /\ FlushPosition(NewCalls[i].data) = received_lsn'

\* C16 as stated: on a 'k' frame of at least 18 bytes with wal_end = L the
\* engine sets received_lsn to max(received_lsn, L) and, before polling
\* again, emits one standby status frame whose received and flushed fields
\* equal the updated received_lsn, whatever the reply-requested byte.
C16_KeepaliveAlwaysAnswered ==
    [][KeepaliveStep =>
          /\ received_lsn' = Max(received_lsn, wire'.lsn)
          /\ KeepaliveAnswered]_vars

\* C16, amended: the frame is emitted when the updated received_lsn is not
\* 0; when it is 0 nothing is emitted.
C16_KeepaliveAnsweredAboveZero ==
    [][KeepaliveStep =>
          /\ received_lsn' = Max(received_lsn, wire'.lsn)
          /\ IF received_lsn' > 0 THEN KeepaliveAnswered ELSE NewFeedbacks = {}]_vars

\* a keepalive below the received LSN has been answered with a frame at the
\* received LSN
C16_KeepaliveAnswered ==
    /\ wire.type = "Keepalive"
    /\ wire.lsn = 1
    /\ received_lsn = MaxLsn
    /\ pc = "head"
    /\ Len(calls) >= 3
    /\ calls[Len(calls) - 2] = GetCall
    /\ calls[Len(calls) - 1].call = "put_copy_data"
    /\ WritePosition(calls[Len(calls) - 1].data) = MaxLsn
    /\ calls[Len(calls)] = FlushCall

-----------------------------------------------------------------------------
(* Properties of the session: cancellation, errors, handshake *)

\* C17: with the cancellation token signalled before the first poll the
\* engine sends one final feedback (if received_lsn > 0) and exits cleanly
\* with no further transport call; it never polls after cancellation was
\* signalled at the loop head.
C17_CancelledAtHeadNeverPolls ==
    [][(cancelled /\ status = "STREAMING" /\ pc = "head") => pc' # "poll"]_vars

\* C18: once the token is signalled while streaming, the engine eventually
\* reaches STOPPED.
C18_CancelledEventuallyStopped ==
    (cancelled /\ status = "STREAMING") ~> (status = "STOPPED")

\* the last thing done on the connection before it was finished was a send
FinalFeedbackAttempted ==
    /\ Len(calls) >= 2
    /\ calls[Len(calls)] = FinishCall
    /\ calls[Len(calls) - 1].call \in {"put_copy_data", "flush"}

\* C19: a fatal error inside the loop terminates the loop, and before the
\* connection is closed the engine attempts one final feedback (there is one
\* to send when received_lsn > 0).
C19_FinalFeedbackBeforeClose ==
    (status = "CLOSED" /\ error # "none" /\ received_lsn > 0) => FinalFeedbackAttempted

\* C20: a failure of CREATE_REPLICATION_SLOT, reported as a result with a
\* status that is not ok or as no result at all, is not fatal: the engine
\* warns and still issues START_REPLICATION.
C20_SlotFailureNotFatal ==
    \A i \in DOMAIN calls :
        (/\ calls[i].call = "exec"
         /\ calls[i].query = "CREATE_REPLICATION_SLOT"
         /\ calls[i].outcome # "ok")
            => /\ i < Len(calls)
               /\ calls[i + 1].call = "exec"
               /\ calls[i + 1].query = "START_REPLICATION"

IdentifyAnswered ==
    /\ calls # <<>>
    /\ calls[Len(calls)].call = "exec"
    /\ calls[Len(calls)].query = "IDENTIFY_SYSTEM"

\* C21: identify_system succeeds only when the result of IDENTIFY_SYSTEM has
\* ok status and at least one row; with another status, no row or no result
\* it fails with a Protocol error.
C21_IdentifyNeedsOkAndRow ==
    IdentifyAnswered =>
        IF calls[Len(calls)].outcome = "ok" /\ calls[Len(calls)].ntuples >= 1
        THEN status = "IDENTIFIED" /\ error = "none"
        ELSE status = "STOPPED" /\ error = "Protocol"

\* IDENTIFY_SYSTEM came back with ok status and no row
C21_OkStatusWithoutRow ==
    /\ IdentifyAnswered
    /\ calls[Len(calls)].outcome = "ok"
    /\ calls[Len(calls)].ntuples = 0
    /\ error = "Protocol"

IsExec(c, query) == c.call = "exec" /\ c.query = query

IdentifySucceededBefore(i) ==
    \E j \in 1..(i - 1) :
        /\ IsExec(calls[j], "IDENTIFY_SYSTEM")
        /\ calls[j].outcome = "ok" /\ calls[j].ntuples >= 1

\* C22: for any sequence of calls on the public operations,
\* CREATE_REPLICATION_SLOT and START_REPLICATION are never issued before
\* IDENTIFY_SYSTEM has succeeded, and no COPY frame is polled before
\* START_REPLICATION has been issued.
C22_HandshakeInOrder ==
    /\ \A i \in DOMAIN calls :
          (IsExec(calls[i], "CREATE_REPLICATION_SLOT") \/ IsExec(calls[i], "START_REPLICATION"))
              => IdentifySucceededBefore(i)
    /\ (status = "STREAMING" /\ calls # <<>> /\ calls[1].call = "connect")
          => IsExec(calls[Len(calls)], "START_REPLICATION")

\* the native closes in the record of calls
Finishes == {i \in DOMAIN calls : calls[i] = FinishCall}
\* PQconnectdb returned an object: always, unless the record starts with a
\* connect that got none
Allocated == ~(calls # <<>> /\ calls[1].call = "connect" /\ calls[1].outcome = "null")

\* C25: on every exit path (failed connect, handshake error, error inside the
\* loop) a native connection that was allocated is closed exactly once:
\* never twice, and once the engine has stopped it is closed.
C25_ClosedExactlyOnce ==
    /\ [](Cardinality(Finishes) <= 1)
    /\ [](status = "CLOSED" => (Cardinality(Finishes) = 1 <=> Allocated))
    /\ [](status \notin {"STOPPED", "CLOSED"} => Finishes = {})
    /\ (status = "STOPPED") ~> (status = "CLOSED")

\* a connection that was allocated and is not good has been closed
C25_BadConnectionClosed ==
    /\ status = "CLOSED"
    /\ calls[1].call = "connect" /\ calls[1].outcome = "bad"
    /\ Finishes = {2}

-----------------------------------------------------------------------------
(* Properties of the configuration *)

\* a slot name as the specification wants it
ValidSlotName(name) ==
    /\ Len(name) >= 1
    /\ Len(name) <= 63
    /\ \A i \in DOMAIN name :
          \/ name[i] \in 48..57
          \/ name[i] \in 65..90
          \/ name[i] \in 97..122
          \/ name[i] = 95

-----------------------------------------------------------------------------
(* Properties of the process *)

\* the stream has been started and the process runs
ProcessStreaming == process.pc \in {"token", "head", "next_event"}

\* C23: the process exits with code 0 when the shutdown is graceful and
\* with another code when a fatal error surfaces; an interrupt signal
\* received at any point during streaming triggers cancellation.
C23_ExitCodesAndInterrupt ==
    /\ []((process.pc = "exited" /\ ~process.killed)
              => (process.exit_code = Some(0) <=> process.result = "Ok"))
    /\ [][(ProcessStreaming /\ ~process.interrupted /\ process'.interrupted)
              => cancelled']_vars

-----------------------------------------------------------------------------
(* Properties of the dispatch *)

\* the step takes a 'w' frame that carries a message
MessageStep ==
    /\ pc = "poll" /\ status = "STREAMING"
    /\ calls' # calls
    /\ "payload" \in DOMAIN wire'

\* what the parser makes of the payload of the frame of the step, and of
\* the frame of the last step
DecodedNext == parse_wal_message(wire'.payload, in_streaming_txn)
DecodedLast == parse_wal_message(wire.payload, before.in_streaming_txn)

\* the step dispatches a message of one of the types
Dispatches(types) ==
    /\ MessageStep
    /\ DecodedNext.kind = "Ok"
    /\ DecodedNext.msg.type \in types

\* C26: add_relation replaces any entry for the same OID: after a Relation
\* message get_relation(r) returns its descriptor, and the entries of other
\* OIDs are as they were.
C26_LatestRelationWins ==
    [][Dispatches({"Relation"}) =>
          /\ get_relation(relations', DecodedNext.msg.relation.oid)
                 = Some(DecodedNext.msg.relation)
          /\ DOMAIN relations' = DOMAIN relations \cup {DecodedNext.msg.relation.oid}
          /\ \A o \in DOMAIN relations \ {DecodedNext.msg.relation.oid} :
                get_relation(relations', o) = get_relation(relations, o)]_vars

\* a Relation message has replaced a different descriptor of its OID while
\* another OID was cached
C26_DescriptorReplaced ==
    /\ "payload" \in DOMAIN wire
    /\ DecodedLast.kind = "Ok"
    /\ DecodedLast.msg.type = "Relation"
    /\ DecodedLast.msg.relation.oid \in DOMAIN before.relations
    /\ before.relations[DecodedLast.msg.relation.oid] # DecodedLast.msg.relation
    /\ relations[DecodedLast.msg.relation.oid] = DecodedLast.msg.relation
    /\ Cardinality(DOMAIN relations) = 2

\* C27: StreamStart(xid, first_segment) sets in_streaming_txn and
\* streaming_xid = Some(xid); StreamStop, StreamCommit and StreamAbort clear
\* both, whatever XID they carry and whether or not a stream was open; no
\* other message, and no other step, changes either field.
C27_StreamFieldsFollowStreamMessages ==
    [][IF Dispatches({"StreamStart"})
       THEN in_streaming_txn' /\ streaming_xid' = Some(DecodedNext.msg.xid)
       ELSE IF Dispatches({"StreamStop", "StreamCommit", "StreamAbort"})
       THEN ~in_streaming_txn' /\ streaming_xid' = None
       ELSE UNCHANGED <<in_streaming_txn, streaming_xid>>]_vars

\* a StreamCommit carrying another XID than the open stream's has closed it
C27_OtherXidClosesStream ==
    /\ "payload" \in DOMAIN wire
    /\ before.in_streaming_txn /\ before.streaming_xid = Some(3)
    /\ DecodedLast.kind = "Ok"
    /\ DecodedLast.msg.type = "StreamCommit"
    /\ DecodedLast.msg.xid = 7
    /\ ~in_streaming_txn /\ streaming_xid = None


-----------------------------------------------------------------------------
(* Properties of the frame handling of the loop *)

\* the step takes a frame the engine does not process, with this test on it
FrameStep(Test(_)) ==
    /\ pc = "poll" /\ status = "STREAMING"
    /\ calls' # calls
    /\ "data" \in DOMAIN wire'
    /\ Test(wire'.data)

OtherTag(data) == data[1] \notin {FrameK, FrameW}
TooShort(data) ==
    \/ data[1] = FrameK /\ Len(data) < 18
    \/ data[1] = FrameW /\ Len(data) < 25

\* C28: a COPY frame whose first byte is neither 'k' nor 'w' is dropped with
\* a warning: received_lsn, the relation cache, the streaming flag and XID
\* are unchanged, no feedback frame is sent because of it, and the loop
\* goes on to the next iteration.
C28_UnknownFrameDropped ==
    [][FrameStep(OtherTag) =>
          /\ report'.level = "warn"
          /\ UNCHANGED <<received_lsn, relations, in_streaming_txn, streaming_xid>>
          /\ NewCalls = <<GetCall>>
          /\ pc' = "head" /\ status' = "STREAMING" /\ error' = error]_vars

\* a frame tagged 'K' has been dropped by an engine that has received an LSN,
\* a relation and an open stream, with the feedback interval elapsed
C28_UpperCaseKeepaliveDropped ==
    /\ "data" \in DOMAIN wire
    /\ wire.data[1] = 75 /\ Len(wire.data) = KeepaliveMinLen
    /\ report.level = "warn"
    /\ pc = "head" /\ status = "STREAMING"
    /\ received_lsn > 0 /\ relations # New.relations /\ in_streaming_txn
    /\ now - last_feedback_time > feedback_interval_secs

\* the received LSN after a 'w' frame with this data_start
AfterHeader(data_start) ==
    IF data_start > 0 THEN Max(received_lsn, data_start) ELSE received_lsn

\* the session after the dispatch of the message of the frame of the step,
\* parsed with the streaming flag the frame met
DispatchedNext ==
    process_replication_message(DecodedNext.msg, relations, in_streaming_txn,
                                streaming_xid)

C30_ShortFrameFatal ==
    [][FrameStep(TooShort) =>
          /\ status' = "STOPPED" /\ error' = "Protocol"
          /\ UNCHANGED <<received_lsn, relations, in_streaming_txn, streaming_xid>>
          /\ NewCalls = <<GetCall>>]_vars

\* a 'w' frame of 24 bytes carrying data_start = 1 has stopped an engine that
\* had received nothing above 0, with a relation cached and a stream open
C30_HeaderOneByteShort ==
    /\ "data" \in DOMAIN wire
    /\ wire.data[1] = FrameW /\ Len(wire.data) = WalMinLen - 1
    /\ UnsignedBE(wire.data, 1, 8) = 1
    /\ status = "STOPPED" /\ error = "Protocol"
    /\ received_lsn = 0 /\ relations # New.relations /\ in_streaming_txn

-----------------------------------------------------------------------------
(* Properties of the periodic feedback *)

\* the step is check_and_send_feedback at the head of an iteration
HeadStep ==
    /\ pc = "head" /\ status = "STREAMING"
    /\ pc' = "poll" \/ status' = "STOPPED"

IntervalExpired == now - last_feedback_time > feedback_interval_secs

\* C31 as stated: check_and_send_feedback sends a standby status reply and
\* sets last_feedback_time to now exactly when now - last_feedback_time is
\* strictly greater than the feedback interval; otherwise it sends nothing
\* and leaves last_feedback_time unchanged.
C31_FeedbackExactlyOnExpiry ==
    [][HeadStep =>
          IF IntervalExpired
          THEN Cardinality(NewFeedbacks) = 1 /\ last_feedback_time' = now
          ELSE NewCalls = <<>> /\ UNCHANGED last_feedback_time]_vars

\* C31: when now - last_feedback_time is strictly greater than the feedback
\* interval, check_and_send_feedback calls send_feedback, which hands one
\* standby status frame at received_lsn to the transport when received_lsn
\* is above 0 and nothing when it is 0, and sets last_feedback_time to now
\* unless the transport failed, which ends the loop; otherwise it sends
\* nothing and leaves last_feedback_time unchanged.
C31_FeedbackOnExpiryAboveZero ==
    [][HeadStep =>
          IF IntervalExpired
          THEN /\ Cardinality(NewFeedbacks) = IF received_lsn > 0 THEN 1 ELSE 0
               /\ \A i \in NewFeedbacks :
                     i = 1 /\ StandbyStatusLayout(NewCalls[i].data, received_lsn, now)
               /\ \/ /\ pc' = "poll" /\ status' = "STREAMING"
                     /\ last_feedback_time' = now
                  \/ /\ status' = "STOPPED" /\ error' = "Protocol"
                     /\ received_lsn > 0
                     /\ UNCHANGED last_feedback_time
          ELSE /\ NewCalls = <<>>
               /\ pc' = "poll" /\ status' = "STREAMING"
               /\ UNCHANGED last_feedback_time]_vars

\* a periodic feedback has been sent and flushed at the end of the clock
C31_PeriodicFeedbackSent ==
    /\ pc = "poll" /\ status = "STREAMING"
    /\ received_lsn > 0
    /\ last_feedback_time = now /\ now = MaxClock
    /\ Len(calls) = 2
    /\ calls[1].call = "put_copy_data" /\ calls[2] = FlushCall

\* C32: dispatching a Begin or a Commit changes no session state:
\* flushed_lsn, the relation cache, the streaming flag and XID are as before,
\* and received_lsn changes only by the update_lsn(data_start) of the frame.
C32_BeginCommitChangeNothing ==
    [][Dispatches({"Begin", "Commit"}) =>
          /\ UNCHANGED <<flushed_lsn, relations, in_streaming_txn, streaming_xid>>
          /\ received_lsn' = AfterHeader(wire'.lsn)]_vars

\* a Commit has been dispatched while a relation was cached and a stream was
\* open, and both are still there
C32_CommitInsideStream ==
    /\ "payload" \in DOMAIN wire
    /\ DecodedLast.kind = "Ok" /\ DecodedLast.msg.type = "Commit"
    /\ before.relations # New.relations /\ before.in_streaming_txn
    /\ relations = before.relations
    /\ in_streaming_txn /\ streaming_xid = before.streaming_xid
    /\ received_lsn > 0

\* the step takes a Relation message that the server encoded with an XID
\* in front exactly when the stream is open
RelationStep ==
    /\ MessageStep
    /\ wire'.type = "Relation"
    /\ (wire'.xid # None) <=> in_streaming_txn

\* the OID in the bytes of a Relation payload: after the tag, and after the
\* XID when there is one
EncodedOid(w) == UnsignedBE(w.payload, IF w.xid # None THEN 5 ELSE 1, 4)

\* C33: a Relation message is decoded with a leading XID exactly when the
\* session is inside a streamed transaction, the parser being given the
\* in_streaming_txn the earlier messages left: a Relation sent with the XID
\* inside a stream, or without it outside, is cached under its encoded OID.
C33_RelationDecodedByStreamState ==
    [][RelationStep =>
          /\ status' = "STREAMING"
          /\ EncodedOid(wire') \in DOMAIN relations'
          /\ Wire([msg |-> [type |-> "Relation",
                            relation |-> relations'[EncodedOid(wire')]],
                   rxid |-> wire'.xid]) = wire'.payload]_vars

\* inside the stream of transaction 7 a Relation carrying that XID has been
\* cached under an OID the cache did not hold
C33_RelationCachedInsideStream ==
    /\ "payload" \in DOMAIN wire
    /\ wire.type = "Relation" /\ wire.xid = Some(7)
    /\ before.in_streaming_txn /\ before.streaming_xid = Some(7)
    /\ EncodedOid(wire) \notin DOMAIN before.relations
    /\ EncodedOid(wire) \in DOMAIN relations
    /\ relations[EncodedOid(wire)].oid = EncodedOid(wire)

-----------------------------------------------------------------------------
(* Properties of the parser on malformed buffers *)

OuterTags == {TagB, TagC, TagR, TagI, TagU, TagD, TagT, TagS, TagE, Tagc, TagA}

\* the byte of a DML buffer that follows the relation OID: the marker of the
\* first tuple
MarkerOf(b, m) == b[IF m.is_stream THEN 10 ELSE 6]

KnownDatums(tuple) ==
    \A i \in DOMAIN tuple.columns :
        tuple.columns[i].data_type \in {DatumNull, DatumUnchanged, DatumText}

\* C34: an unknown outer tag, an unknown tuple datum tag and a missing
\* sub-tag each give a Parse error: no Delete is returned whose key-type
\* byte is neither 'K' nor 'O', no Insert whose tuple marker is not 'N', no
\* Update whose marker is not 'K', 'O' or 'N'.
C34_MalformedRejected ==
    /\ (result # Unparsed /\ buf[1] \notin OuterTags) => result.kind = "ParseError"
    /\ result.kind = "Ok" =>
          /\ result.msg.type = "Insert" =>
                MarkerOf(buf, result.msg) = MarkN /\ KnownDatums(result.msg.tuple_data)
          /\ result.msg.type = "Update" =>
                /\ MarkerOf(buf, result.msg) \in {MarkK, MarkO, MarkN}
                /\ KnownDatums(result.msg.new_tuple_data)
          /\ result.msg.type = "Delete" =>
                /\ result.msg.key_type \in {MarkK, MarkO}
                /\ KnownDatums(result.msg.tuple_data)

\* C39: for every buffer parse_wal_message returns a decoded message or a
\* Parse error and never panics; a Relation or tuple body with a negative
\* column_count gives a Parse error or a message with zero columns.
C39_NeverPanics ==
    result.kind \in {"None", "Ok", "ParseError"}

-----------------------------------------------------------------------------
(* Properties of the Truncate arm *)

\* bit of weight k of a flags value
BitSet(flags, k) == (flags \div k) % 2 = 1

CascadeReported(info) == info \in {"CASCADE ", "CASCADE RESTART IDENTITY "}
RestartIdentityReported(info) ==
    info \in {"RESTART IDENTITY ", "CASCADE RESTART IDENTITY "}

\* C35: when a Truncate is dispatched, CASCADE is reported exactly when bit 1
\* of its flags is set and RESTART IDENTITY exactly when bit 2 is set, for
\* every flags value.
C35_TruncateFlagsAreBits ==
    [][Dispatches({"Truncate"}) =>
          /\ CascadeReported(report'.flag_info) <=> BitSet(DecodedNext.msg.flags, 1)
          /\ RestartIdentityReported(report'.flag_info)
                 <=> BitSet(DecodedNext.msg.flags, 2)]_vars

-----------------------------------------------------------------------------
(* Properties of the LSN the feedback reports *)

\* C36: every standby status frame reports as received and as flushed LSN
\* the maximum of the wal_end of the keepalives and of the non-zero
\* data_start of the XLogData frames received so far; the LSNs of successive
\* frames never decrease.
C36_FeedbackReportsMaxReceived ==
    /\ [][calls' # calls =>
            \A i \in NewFeedbacks :
               /\ WritePosition(NewCalls[i].data) = SetMax(lsn_inputs' \cup {0})
               /\ FlushPosition(NewCalls[i].data) = SetMax(lsn_inputs' \cup {0})]_vars
    /\ [](\A i, j \in Feedbacks :
             i < j => WritePosition(calls[i].data) <= WritePosition(calls[j].data))
    /\ [](\A i \in Feedbacks : WritePosition(calls[i].data) <= received_lsn)

\* the periodic feedback and the answer to the keepalive that raised the LSN
\* are both in the record of the iteration, the second above the first
C36_TwoFramesRising ==
    /\ wire.type = "Keepalive" /\ wire.lsn = MaxLsn
    /\ Cardinality(Feedbacks) = 2
    /\ \E i, j \in Feedbacks :
          /\ i < j
          /\ WritePosition(calls[i].data) = 1
          /\ WritePosition(calls[j].data) = MaxLsn
    /\ lsn_inputs = {1, MaxLsn}

\* the step takes a 'w' frame whose payload the parser refuses
ParseFails ==
    /\ MessageStep
    /\ wire'.payload # <<>>
    /\ DecodedNext.kind = "ParseError"

\* C37: when the payload of a 'w' frame fails to parse the relation cache,
\* the streaming flag and XID are unchanged and no feedback is sent for the
\* frame, but received_lsn is already max(received_lsn, data_start); the
\* error ends the loop.
C37_ParseErrorKeepsLsn ==
    [][ParseFails =>
          /\ status' = "STOPPED" /\ error' = "Parse"
          /\ UNCHANGED <<relations, in_streaming_txn, streaming_xid>>
          /\ NewCalls = <<GetCall>>
          /\ received_lsn' = Max(received_lsn, wire'.lsn)]_vars

\* a frame with an unknown tag and the highest data_start has stopped the
\* engine, which had received nothing above 0 before, with a relation cached
\* and a stream open
C37_LsnAdvancedByBadFrame ==
    /\ "payload" \in DOMAIN wire
    /\ wire.type = "garbage" /\ wire.payload = <<88>> /\ wire.lsn = MaxLsn
    /\ status = "STOPPED" /\ error = "Parse"
    /\ received_lsn = MaxLsn /\ lsn_inputs = {MaxLsn}
    /\ relations # New.relations /\ in_streaming_txn

-----------------------------------------------------------------------------
(* Properties of the end of the loop *)

\* the step polls and PQgetCopyData answers 0 (no data) or -1 (end of the
\* stream)
NothingPolled ==
    /\ pc = "poll" /\ status = "STREAMING"
    /\ calls' # calls
    /\ "copy_result" \in DOMAIN wire'
    /\ wire'.copy_result \in {0, -1}

\* C38: the loop ends only by returning an error: no data (0) and the end of
\* the stream (-1) are both taken as no data, the loop goes on to poll
\* again, and an engine that has stopped has stopped on an error.
C38_LoopEndsOnlyOnError ==
    /\ [][NothingPolled =>
             /\ pc' = "head" /\ status' = "STREAMING" /\ error' = "none"
             /\ UNCHANGED stateVars
             /\ NewCalls = <<GetCall>>]_vars
    /\ [](status \in {"STREAMING", "STOPPED"})
    /\ [](status = "STOPPED" <=> error \in {"Protocol", "Parse"})
    /\ [](status = "STREAMING" <=> error = "none")

\* the end of the stream has been polled by an engine that has received an
\* LSN, and the engine is at the head of the next iteration
C38_EndOfStreamIgnored ==
    /\ "copy_result" \in DOMAIN wire
    /\ wire.copy_result = -1
    /\ pc = "head" /\ status = "STREAMING" /\ error = "none"
    /\ received_lsn > 0

====
